---- MODULE Spec2Model ----
(***************************************************************************)
(* A model of the image optimisation proxy of nostria-proxy                *)
(* (src/src/functions/ImageOptimizeProxy.ts): the HTTP handler             *)
(* ImageOptimizeProxy, the blob cache behind it (getCachedImage,           *)
(* cacheImage), the process-wide container handle (getContainerClient)     *)
(* and the cache key (generateCacheKey).                                   *)
(*                                                                         *)
(* Every request is a process that moves from one await of the handler to  *)
(* the next; an action is the resolution (or rejection) of the awaited     *)
(* call together with all the synchronous code that runs after it, up to   *)
(* the next await or the response.  Requests interleave at the awaits as   *)
(* they do on the Node.js event loop.                                      *)
(*                                                                         *)
(* Representation.  A query-string value is a sequence of one-character    *)
(* strings (parseInt reads it character by character); Str joins it into   *)
(* a string.  A JavaScript number is a record [t, v]: a number, NaN or     *)
(* undefined.  SHA-256 is taken as injective: the digest of a string is    *)
(* the tagged string itself.  Bytes (buffers) are records that say what    *)
(* they were made of.                                                      *)
(***************************************************************************)
EXTENDS Integers, Sequences, FiniteSets, TLC

\* ------------------------------------------------------------- bounds
\* Requests the process serves over the modelled run (all may overlap).
NumRequests == 2
\* Times the clock advances over the modelled run.
MaxTicks == 1

\* -------------------------------------------------- program constants
CONTAINER_NAME == "image-cache"
BROWSER_CACHE_MAX_AGE == 604800
BLOB_CACHE_MAX_AGE_MS == 86400000
maxDimension == 1024
DefaultQuality == 75
DefaultFormat == "webp"

VARIABLES
    connectionString,     \* process.env.AzureWebJobsStorage
    containerClient,      \* module-level handle (null until initialised)
    containerInitialized, \* module-level flag
    store,                \* the durable container: blob name -> entry
    now,                  \* Date.now()
    ticks,                \* how often the clock has advanced
    pc,                   \* per request: the await it is suspended at
    query,                \* per request: request.query
    loc,                  \* per request: the handler's local variables
    resp,                 \* per request: the HttpResponseInit returned
    log,                  \* per request: the external calls it made, in order
    started,              \* per request: when it arrived, and who had finished
    method,               \* per request: request.method
    tokenCache,           \* IGDB.ts: module-level token cache
    clientId,             \* process.env.IGDB_CLIENT_ID
    clientSecret          \* process.env.IGDB_CLIENT_SECRET

\* The state of the functions other than ImageOptimizeProxy.
otherVars == <<method, tokenCache, clientId, clientSecret>>
vars == <<connectionString, containerClient, containerInitialized, store, now,
          ticks, pc, query, loc, resp, log, started, method, tokenCache,
          clientId, clientSecret>>

Requests == 1..NumRequests

\* ------------------------------------------------- JavaScript values
NULL == "null"
Num(n) == [t |-> "number", v |-> n]
NaN == [t |-> "NaN", v |-> 0]
undefined == [t |-> "undefined", v |-> 0]
IsNum(x) == x.t = "number"
\* ToBoolean of a number-or-undefined: 0, NaN and undefined are falsy.
Truthy(x) == IsNum(x) /\ x.v # 0
\* String(x) of a number, as a template literal renders it.
NumberToString(x) == IF IsNum(x) THEN ToString(x.v) ELSE x.t

\* Mutant: Math.max for Math.min.
MathMax(a, b) ==
    IF ~IsNum(a) \/ ~IsNum(b) THEN NaN
    ELSE IF a.v >= b.v THEN a ELSE b

\* Math.min(a, b): NaN if either argument is NaN.
MathMin(a, b) ==
    IF ~IsNum(a) \/ ~IsNum(b) THEN NaN
    ELSE IF a.v <= b.v THEN a ELSE b

RECURSIVE Str(_)
Str(s) == IF s = <<>> THEN "" ELSE Head(s) \o Str(Tail(s))

DigitChars == <<"0", "1", "2", "3", "4", "5", "6", "7", "8", "9">>
IsDigit(c) == \E i \in DOMAIN DigitChars : DigitChars[i] = c
DigitValue(c) == (CHOOSE i \in DOMAIN DigitChars : DigitChars[i] = c) - 1
IsWhiteSpace(c) == c \in {" ", "\t", "\n"}

RECURSIVE TrimStart(_)
TrimStart(s) ==
    IF s # <<>> /\ IsWhiteSpace(Head(s)) THEN TrimStart(Tail(s)) ELSE s

RECURSIVE ParseDigits(_, _)
ParseDigits(s, acc) ==
    IF s = <<>> \/ ~IsDigit(Head(s)) THEN acc
    ELSE ParseDigits(Tail(s), acc * 10 + DigitValue(Head(s)))

\* parseInt(s) without a radix, for decimal input: leading white space is
\* skipped, one sign is read, then digits up to the first other character;
\* NaN when no digit is found.
parseInt(s) ==
    LET t == TrimStart(s)
        signed == t # <<>> /\ Head(t) \in {"+", "-"}
        u == IF signed THEN Tail(t) ELSE t
    IN  IF u = <<>> \/ ~IsDigit(Head(u)) THEN NaN
        ELSE IF signed /\ Head(t) = "-" THEN Num(0 - ParseDigits(u, 0))
        ELSE Num(ParseDigits(u, 0))

\* ------------------------------------------------------ request input
\* request.query.get(name) is null when the parameter is absent; a present
\* parameter may be the empty string.  "x ? .. : .." and "x || d" both test
\* for a present, non-empty value.
Has(q, name) == name \in DOMAIN q
Given(q, name) == Has(q, name) /\ q[name] # <<>>

\* Mutant: only an absent url is rejected, an empty one is not.
MissingUrlOnlyAbsent(q) == ~Has(q, "url")

\* if (!url)
MissingUrl(q) == ~Given(q, "url")

\* const format = request.query.get("format") || "webp"
FormatOf(q) == IF Given(q, "format") THEN Str(q["format"]) ELSE DefaultFormat

\* const quality = parseInt(request.query.get("quality") || "75")
QualityOf(q) ==
    parseInt(IF Given(q, "quality") THEN q["quality"] ELSE <<"7", "5">>)

\* Mutant: the dimension is parsed and not clamped.
ParseDimensionUnclamped(q, name) ==
    IF Given(q, name) THEN parseInt(q[name]) ELSE undefined

\* w ? Math.min(parseInt(w), maxDimension) : undefined
ClampDimension(q, name) ==
    IF Given(q, name) THEN MathMin(parseInt(q[name]), Num(maxDimension))
    ELSE undefined

\* ---------------------------------------------------------- cache key
sha256hex(s) == <<"sha256", s>>

\* `${url}|${width || ""}|${height || ""}|${format || "webp"}|${quality || 75}`
CanonicalString(url, width, height, format, quality) ==
    url \o "|" \o (IF Truthy(width) THEN NumberToString(width) ELSE "")
        \o "|" \o (IF Truthy(height) THEN NumberToString(height) ELSE "")
        \o "|" \o (IF format # "" THEN format ELSE DefaultFormat)
        \o "|" \o (IF Truthy(quality) THEN NumberToString(quality)
                   ELSE ToString(DefaultQuality))

\* Mutant: the time of the request is hashed into the key.
generateCacheKeyAtTime(url, width, height, format, quality) ==
    sha256hex(CanonicalString(url, width, height, format, quality)
              \o "|" \o ToString(now))

generateCacheKey(url, width, height, format, quality) ==
    sha256hex(CanonicalString(url, width, height, format, quality))

\* `${cacheKey}.${format}`, as getCachedImage (line 52) and cacheImage
\* (line 86) build it: the key has a fixed length, so the name determines
\* both parts.
LookupBlobName(cacheKey, format) == [key |-> cacheKey, ext |-> format]
\* Mutant: the extension is left out of the name that is written.
PersistBlobNameNoExt(cacheKey, format) == [key |-> cacheKey, ext |-> ""]
PersistBlobName(cacheKey, format) == [key |-> cacheKey, ext |-> format]
NoBlob == [key |-> <<>>, ext |-> ""]

\* ------------------------------------------------------------- bytes
\* null where a buffer is expected.
NoBytes == [kind |-> "none"]

\* The handler's locals once the query is read (lines 102-118); data and
\* buffer are assigned later (lines 134 and 136).  container is the local of
\* getCachedImage (line 51) and, later, of cacheImage (line 85).
Locals(q) ==
    LET url == Str(q["url"])
        width == ClampDimension(q, "w")
        height == ClampDimension(q, "h")
        format == FormatOf(q)
        quality == QualityOf(q)
    IN  [url |-> url, width |-> width, height |-> height, format |-> format,
         quality |-> quality,
         cacheKey |-> generateCacheKey(url, width, height, format, quality),
         data |-> NoBytes, buffer |-> NoBytes, container |-> NULL]

NoLocals ==
    [url |-> "", width |-> undefined, height |-> undefined, format |-> "",
     quality |-> undefined, cacheKey |-> <<>>, data |-> NoBytes,
     buffer |-> NoBytes, container |-> NULL]

\* What the origin serves for a locator.
OriginBytes(url) == [kind |-> "origin", url |-> url]
\* sharp(data).resize({width, height, fit: "cover"}).toFormat(format, {quality})
Transform(data, width, height, format, quality) ==
    [kind |-> "image", src |-> data, width |-> width, height |-> height,
     fit |-> "cover", format |-> format, quality |-> quality]

ContentType(format) == "image/" \o format
CacheControl == "public, max-age=" \o ToString(BROWSER_CACHE_MAX_AGE)

\* Mutant: the entry is stored with the blob max-age as its cache-control.
UploadedBlobBlobAge(buffer, format, t) ==
    [bytes |-> buffer, lastModified |-> t,
     blobContentType |-> ContentType(format),
     blobCacheControl |-> "public, max-age=" \o ToString(BLOB_CACHE_MAX_AGE_MS)]

\* The blob an upload leaves in the container at time t.
UploadedBlob(buffer, format, t) ==
    [bytes |-> buffer, lastModified |-> t,
     blobContentType |-> ContentType(format), blobCacheControl |-> CacheControl]

\* ---------------------------------------------------------- responses
NoResponse == [status |-> 0, headers |-> <<>>, body |-> ""]

MissingUrlResponse ==
    [status |-> 400, headers |-> <<>>, body |-> "Missing 'url' query parameter."]

HitResponse(format, cachedBuffer) ==
    [status |-> 200,
     headers |-> ("Content-Type" :> ContentType(format))
                 @@ ("Cache-Control" :> CacheControl) @@ ("X-Cache" :> "HIT"),
     body |-> cachedBuffer]

\* Mutant: the blob max-age is sent as the browser max-age.
MissResponseBlobAge(format, buffer) ==
    [status |-> 200,
     headers |-> ("Content-Type" :> ContentType(format))
                 @@ ("Cache-Control" :> "public, max-age=" \o ToString(BLOB_CACHE_MAX_AGE_MS))
                 @@ ("X-Cache" :> "MISS"),
     body |-> buffer]

MissResponse(format, buffer) ==
    [status |-> 200,
     headers |-> ("Content-Type" :> ContentType(format))
                 @@ ("Cache-Control" :> CacheControl) @@ ("X-Cache" :> "MISS"),
     body |-> buffer]

ErrorPrefix == "Error processing image: "
\* Mutant: the cause is returned without the prefix.
ErrorResponseBare(err) == [status |-> 500, headers |-> <<>>, body |-> err]
ErrorResponse(err) ==
    [status |-> 500, headers |-> <<>>, body |-> ErrorPrefix \o err]

\* ------------------------------------------------------------ errors
ConfigError == "Error: AzureWebJobsStorage connection string not configured"
StoreError == "RestError"
FetchError == "AxiosError"
CodecError == "Error: sharp"

\* ------------------------------------------------------ staleness test
\* Mutant: the browser max-age (7 days) is taken for the blob max-age.
IsExpiredBrowserAge(t, lastModified) ==
    (t - lastModified) > BROWSER_CACHE_MAX_AGE * 1000

\* Mutant: an entry of exactly the maximum age is expired too.
IsExpiredNonStrict(t, lastModified) == (t - lastModified) >= BLOB_CACHE_MAX_AGE_MS

\* (Date.now() - lastModified.getTime()) > BLOB_CACHE_MAX_AGE_MS
IsExpired(t, lastModified) == (t - lastModified) > BLOB_CACHE_MAX_AGE_MS

\* What getProperties resolves to: the blob's properties; the SDK types
\* lastModified as optional.
PropertiesOf(entry, withDate) ==
    IF withDate
    THEN [lastModified |-> entry.lastModified, contentType |-> entry.blobContentType]
    ELSE [contentType |-> entry.blobContentType]
HasLastModified(p) == "lastModified" \in DOMAIN p

\* ------------------------------------------------------------ inputs
\* The query strings requests are drawn from.  Queries are the shapes two
\* overlapping requests take; ManyQueries are the shapes a single request
\* takes.
Urls == {<<>>, <<"a">>}
Widths ==
    {<<>>, <<"0">>, <<"-", "5">>, <<"2", "0", "0">>, <<"1", "0", "2", "4">>,
     <<"1", "0", "2", "5">>, <<"5", "0", "0", "0">>, <<"1", "2", "p", "x">>,
     <<"p", "x">>}
Heights == {<<"1", "0", "0">>, <<"2", "0", "0", "0">>, <<"-", "1">>}
Formats == {<<>>, <<"p", "n", "g">>}
Qualities == {<<>>, <<"8", "0">>, <<"0">>}

Queries ==
    {("w" :> <<"5", "0", "0", "0">>),
     ("url" :> <<>>),
     ("url" :> <<"a">>),
     ("url" :> <<"a">>) @@ ("w" :> <<"5", "0", "0", "0">>)
        @@ ("format" :> <<"p", "n", "g">>)}

ManyQueries ==
    {("w" :> w) : w \in Widths}
    \cup {("url" :> u) : u \in Urls}
    \cup {("url" :> u) @@ ("w" :> w) : u \in Urls, w \in Widths}
    \cup {("url" :> u) @@ ("h" :> h) : u \in Urls, h \in Heights}
    \cup {("url" :> <<"a">>) @@ ("w" :> w) @@ ("h" :> h) :
            w \in Widths, h \in Heights}
    \cup {("url" :> <<"a">>) @@ ("format" :> f) @@ ("quality" :> k) :
            f \in Formats, k \in Qualities}

\* -------------------------------------------------------- initial state
StartTime == 2 * BLOB_CACHE_MAX_AGE_MS
EmptyStore == [b \in {} |-> NoBytes]

\* The container outlives the process: it may hold an entry that an earlier
\* process wrote for a request, at some earlier time.
EarlierTimes ==
    {StartTime - BLOB_CACHE_MAX_AGE_MS - 1, StartTime - BLOB_CACHE_MAX_AGE_MS,
     StartTime}
EntryFor(q, t) ==
    LET l == Locals(q)
    IN  UploadedBlob(Transform(OriginBytes(l.url), l.width, l.height, l.format,
                               l.quality), l.format, t)
BlobFor(q) == PersistBlobName(Locals(q).cacheKey, Locals(q).format)
SeededStores ==
    {EmptyStore}
    \cup {[b \in {BlobFor(q)} |-> EntryFor(q, t)] :
            q \in {("url" :> <<"a">>) @@ ("w" :> <<"1", "0", "2", "4">>)},
            t \in EarlierTimes}

\* let tokenCache: TokenCache | null = null
NullTokenCache == [isNull |-> TRUE, accessToken |-> "", expiresAt |-> 0]

\* No request has reached the other functions of the app: every request is
\* a GET, and IGDB.ts holds no token.
OtherFunctionsIdle ==
    /\ method = [r \in Requests |-> "GET"]
    /\ tokenCache = NullTokenCache
    /\ clientId = NULL
    /\ clientSecret = NULL

InitWith(stores) ==
    /\ connectionString \in {NULL, "UseDevelopmentStorage=true"}
    /\ OtherFunctionsIdle
    /\ containerClient = NULL
    /\ containerInitialized = FALSE
    /\ store \in stores
    /\ now = StartTime
    /\ ticks = 0
    /\ pc = [r \in Requests |-> "idle"]
    /\ query = [r \in Requests |-> <<>>]
    /\ loc = [r \in Requests |-> NoLocals]
    /\ resp = [r \in Requests |-> NoResponse]
    /\ log = [r \in Requests |-> <<>>]
    /\ started = [r \in Requests |-> [at |-> 0, after |-> {}]]

Init == InitWith({EmptyStore})
InitSeeded == InitWith(SeededStores)

\* ------------------------------------------------------------ helpers
Call(op, res, blob) == [op |-> op, res |-> res, blob |-> blob, lm |-> -1, at |-> -1]
Logged(r, e) == log' = [log EXCEPT ![r] = Append(@, e)]

Goto(r, p) ==
    /\ pc' = [pc EXCEPT ![r] = p]
    /\ UNCHANGED resp

Respond(r, response) ==
    /\ pc' = [pc EXCEPT ![r] = "done"]
    /\ resp' = [resp EXCEPT ![r] = response]

LookupBlob(r) == LookupBlobName(loc[r].cacheKey, loc[r].format)
PersistBlob(r) == PersistBlobName(loc[r].cacheKey, loc[r].format)

\* Mutant: the cached handle is not looked at.
getContainerClientEntryNoCache ==
    IF connectionString = NULL \/ connectionString = "" THEN "throw" ELSE "await"

\* getContainerClient up to its first await (lines 15-30): the cached handle,
\* the configuration error, or the pending createIfNotExists.
getContainerClientEntry ==
    IF containerClient # NULL /\ containerInitialized THEN "cached"
    ELSE IF connectionString = NULL \/ connectionString = "" THEN "throw"
    ELSE "await"

\* blobServiceClient.getContainerClient(CONTAINER_NAME) (line 27) makes a new
\* client object in every call that gets there; the one request r makes.
ClientOf(r) == "ContainerClient" \o ToString(r)

\* Mutant: the catch block clears the cached handle.
AfterCreateResetOnFailure(r, ok) ==
    IF ok THEN [client |-> ClientOf(r), initialized |-> TRUE]
    ELSE [client |-> NULL, initialized |-> FALSE]

\* Mutant: the client is cached whether or not its container was created.
AfterCreateEager(r, ok) == [client |-> ClientOf(r), initialized |-> TRUE]

\* The module-level handle after createIfNotExists of r's client settled
\* (lines 30-40): assigned on success only; on failure the error is rethrown
\* and both variables are left alone.
AfterCreate(r, ok) ==
    IF ok THEN [client |-> ClientOf(r), initialized |-> TRUE]
    ELSE [client |-> containerClient, initialized |-> containerInitialized]

\* Mutant: an entry is written only when the name holds none.
PutIfAbsent(container, blobName, entry) ==
    [b \in DOMAIN container \cup {blobName} |->
        IF b \in DOMAIN container THEN container[b] ELSE entry]

\* The container after blockBlobClient.upload(...) of an entry under a blob
\* name (line 89): the entry replaces whatever the name held.
Put(container, blobName, entry) ==
    [b \in DOMAIN container \cup {blobName} |->
        IF b = blobName THEN entry ELSE container[b]]

\* The catch blocks of getCachedImage (lines 77-80) and cacheImage
\* (lines 95-97) log the error and do not rethrow it.
\* Mutants: the catch block rethrows.
getCachedImageRethrows == FALSE
cacheImageRethrows == FALSE

getCachedImageCatches == TRUE
cacheImageCatches == TRUE

\* Mutant: on a miss the request waits for another request to fill the entry.
LookupReturnedWaits(r, cachedBuffer) ==
    IF cachedBuffer # NoBytes
    THEN Respond(r, HitResponse(loc[r].format, cachedBuffer))
    ELSE Goto(r, "waiting")

\* Mutant: the cached buffer is ignored and the image is fetched anyway.
LookupReturnedIgnoringCache(r, cachedBuffer) == Goto(r, "fetch")

\* getCachedImage returned (lines 122-134): a buffer is answered as a hit;
\* on null the handler goes on to axios.get.
LookupReturned(r, cachedBuffer) ==
    IF cachedBuffer # NoBytes
    THEN Respond(r, HitResponse(loc[r].format, cachedBuffer))
    ELSE Goto(r, "fetch")

\* Mutant: an error inside getCachedImage reaches the handler's catch.
LookupThrewToHandler(r, err) == Respond(r, ErrorResponse(err))

\* An error inside getCachedImage's try block: its catch returns null.  Had
\* it rethrown, the handler's catch (line 157) would answer.
LookupThrew(r, err) ==
    IF getCachedImageCatches THEN LookupReturned(r, NoBytes)
    ELSE Respond(r, ErrorResponse(err))

\* Mutant: cacheImage is started and not awaited; the handler answers.
AwaitCacheImageNotAwaited(r, p, buffer) ==
    Respond(r, MissResponse(loc[r].format, buffer))

\* await cacheImage(...) (line 146): the handler is suspended at the await
\* p inside cacheImage.
AwaitCacheImage(r, p, buffer) == Goto(r, p)

\* cacheImage returned: the handler answers with the new buffer (line 148).
PersistReturned(r, buffer) == Respond(r, MissResponse(loc[r].format, buffer))
\* Mutant: a failed upload is tried again.
PersistThrewRetry(r, buffer, err) == Goto(r, "upload")
PersistThrew(r, buffer, err) ==
    IF cacheImageCatches THEN PersistReturned(r, buffer)
    ELSE Respond(r, ErrorResponse(err))

\* ------------------------------------------------------------ actions
\* A request arrives: lines 101-118, then getCachedImage up to its first
\* await (line 51, and line 56 when the handle is cached).
\* Requests are numbered in their order of arrival.
ArriveFrom(r, queries) ==
    /\ pc[r] = "idle"
    /\ \A o \in Requests : o < r => pc[o] # "idle"
    /\ \E q \in queries :
        /\ query' = [query EXCEPT ![r] = q]
        /\ started' = [started EXCEPT
                         ![r] = [at |-> now, after |-> {o \in Requests : pc[o] = "done"}]]
        /\ IF MissingUrl(q)
           THEN /\ Respond(r, MissingUrlResponse)
                /\ UNCHANGED <<loc, log>>
           ELSE CASE getContainerClientEntry = "cached" ->
                          /\ loc' = [loc EXCEPT ![r] =
                                       [Locals(q) EXCEPT !.container = containerClient]]
                          /\ Goto(r, "getProperties") /\ UNCHANGED log
                     [] getContainerClientEntry = "throw" ->
                          /\ loc' = [loc EXCEPT ![r] = Locals(q)]
                          /\ LookupThrew(r, ConfigError)
                          /\ Logged(r, Call("getContainerClient", "fault", NoBlob))
                     [] getContainerClientEntry = "await" ->
                          /\ loc' = [loc EXCEPT ![r] = Locals(q)]
                          /\ Goto(r, "createForLookup") /\ UNCHANGED log
    /\ UNCHANGED <<otherVars, connectionString, containerClient, containerInitialized, store, now, ticks>>

\* client.createIfNotExists() settles (lines 30-40), in getCachedImage's or
\* in cacheImage's call of getContainerClient.
CreateReturn(r) ==
    /\ pc[r] \in {"createForLookup", "createForPersist"}
    /\ \E ok \in BOOLEAN :
        /\ Logged(r, Call("createIfNotExists", IF ok THEN "ok" ELSE "fault", NoBlob))
        /\ containerClient' = AfterCreate(r, ok).client
        /\ containerInitialized' = AfterCreate(r, ok).initialized
        /\ IF ok
           THEN /\ loc' = [loc EXCEPT ![r].container = AfterCreate(r, ok).client]
                /\ Goto(r, IF pc[r] = "createForLookup" THEN "getProperties" ELSE "upload")
           ELSE /\ UNCHANGED loc
                /\ IF pc[r] = "createForLookup"
                   THEN LookupThrew(r, StoreError)
                   ELSE PersistThrew(r, loc[r].buffer, StoreError)
    /\ UNCHANGED <<otherVars, connectionString, store, now, ticks, query, started>>

\* blobClient.getProperties() settles (lines 56-67).
GetPropertiesReturn(r) ==
    /\ pc[r] = "getProperties"
    /\ \/ /\ LookupBlob(r) \notin DOMAIN store
          /\ Logged(r, Call("getProperties", "notFound", LookupBlob(r)))
          /\ LookupReturned(r, NoBytes)
       \/ /\ Logged(r, Call("getProperties", "fault", LookupBlob(r)))
          /\ LookupReturned(r, NoBytes)
       \/ /\ LookupBlob(r) \in DOMAIN store
          /\ \E withDate \in BOOLEAN :
              LET properties == PropertiesOf(store[LookupBlob(r)], withDate)
                  lastModified == IF HasLastModified(properties)
                                  THEN properties.lastModified ELSE -1
              IN  /\ Logged(r, [Call("getProperties", "ok", LookupBlob(r)) EXCEPT
                                   !.lm = lastModified, !.at = now])
                  /\ IF HasLastModified(properties)
                        /\ IsExpired(now, properties.lastModified)
                     THEN Goto(r, "deleteIfExists")
                     ELSE Goto(r, "download")
    /\ UNCHANGED <<otherVars, connectionString, containerClient, containerInitialized, store,
                   now, ticks, query, loc, started>>

\* blobClient.deleteIfExists() settles (lines 65-66).
DeleteReturn(r) ==
    /\ pc[r] = "deleteIfExists"
    /\ \/ /\ store' = [b \in DOMAIN store \ {LookupBlob(r)} |-> store[b]]
          /\ Logged(r, Call("deleteIfExists", "ok", LookupBlob(r)))
          /\ LookupReturned(r, NoBytes)
       \/ /\ UNCHANGED store
          /\ Logged(r, Call("deleteIfExists", "fault", LookupBlob(r)))
          /\ LookupThrew(r, StoreError)
    /\ UNCHANGED <<otherVars, connectionString, containerClient, containerInitialized, now,
                   ticks, query, loc, started>>

\* blobClient.download() and the read of its stream settle (lines 69-76);
\* on success the handler answers from the cache (lines 123-132).
DownloadReturn(r) ==
    /\ pc[r] = "download"
    /\ \/ /\ LookupBlob(r) \in DOMAIN store
          /\ Logged(r, Call("download", "ok", LookupBlob(r)))
          /\ LookupReturned(r, store[LookupBlob(r)].bytes)
       \/ /\ Logged(r, Call("download",
                            IF LookupBlob(r) \in DOMAIN store THEN "fault" ELSE "notFound",
                            LookupBlob(r)))
          /\ LookupThrew(r, StoreError)
    /\ UNCHANGED <<otherVars, connectionString, containerClient, containerInitialized, store,
                   now, ticks, query, loc, started>>

\* axios.get(url) settles (line 134).
FetchReturn(r) ==
    /\ pc[r] = "fetch"
    /\ \/ /\ Logged(r, Call("fetch", "ok", NoBlob))
          /\ loc' = [loc EXCEPT ![r].data = OriginBytes(loc[r].url)]
          /\ Goto(r, "transform")
       \/ /\ Logged(r, Call("fetch", "fault", NoBlob))
          /\ UNCHANGED loc
          /\ Respond(r, ErrorResponse(FetchError))
    /\ UNCHANGED <<otherVars, connectionString, containerClient, containerInitialized, store,
                   now, ticks, query, started>>

\* sharp(...).toBuffer() settles (lines 136-143), then cacheImage up to its
\* first await (lines 85-89).
TransformReturn(r) ==
    /\ pc[r] = "transform"
    /\ \/ LET buffer == Transform(loc[r].data, loc[r].width, loc[r].height,
                                  loc[r].format, loc[r].quality)
          IN  CASE getContainerClientEntry = "cached" ->
                        /\ loc' = [loc EXCEPT ![r].buffer = buffer,
                                              ![r].container = containerClient]
                        /\ AwaitCacheImage(r, "upload", buffer)
                        /\ Logged(r, Call("transform", "ok", NoBlob))
                   [] getContainerClientEntry = "throw" ->
                        /\ loc' = [loc EXCEPT ![r].buffer = buffer]
                        /\ PersistThrew(r, buffer, ConfigError)
                        /\ log' = [log EXCEPT ![r] =
                                     @ \o <<Call("transform", "ok", NoBlob),
                                            Call("getContainerClient", "fault", NoBlob)>>]
                   [] getContainerClientEntry = "await" ->
                        /\ loc' = [loc EXCEPT ![r].buffer = buffer]
                        /\ AwaitCacheImage(r, "createForPersist", buffer)
                        /\ Logged(r, Call("transform", "ok", NoBlob))
       \/ /\ Logged(r, Call("transform", "fault", NoBlob))
          /\ UNCHANGED loc
          /\ Respond(r, ErrorResponse(CodecError))
    /\ UNCHANGED <<otherVars, connectionString, containerClient, containerInitialized, store,
                   now, ticks, query, started>>

\* blockBlobClient.upload() settles (lines 89-97); the handler answers
\* with the new buffer (lines 148-156).
UploadReturn(r) ==
    /\ pc[r] = "upload"
    /\ \/ /\ store' = Put(store, PersistBlob(r),
                           UploadedBlob(loc[r].buffer, loc[r].format, now))
          /\ Logged(r, [Call("upload", "ok", PersistBlob(r)) EXCEPT !.at = now])
          /\ PersistReturned(r, loc[r].buffer)
       \/ /\ UNCHANGED store
          /\ Logged(r, Call("upload", "fault", PersistBlob(r)))
          /\ PersistThrew(r, loc[r].buffer, StoreError)
    /\ UNCHANGED <<otherVars, connectionString, containerClient, containerInitialized, now,
                   ticks, query, loc, started>>

\* Time passes: the clock moves on by more than the blob max-age, so that
\* what was written before the step is expired after it.
Tick ==
    /\ ticks < MaxTicks
    /\ now' = now + BLOB_CACHE_MAX_AGE_MS + 1
    /\ ticks' = ticks + 1
    /\ UNCHANGED <<otherVars, connectionString, containerClient, containerInitialized, store,
                   pc, query, loc, resp, log, started>>

Arrive(r) == ArriveFrom(r, Queries)
ArriveAny(r) == ArriveFrom(r, ManyQueries)

\* Requests that may overlap.
Next ==
    \/ \E r \in Requests :
        \/ Arrive(r)
        \/ CreateReturn(r)
        \/ GetPropertiesReturn(r)
        \/ DeleteReturn(r)
        \/ DownloadReturn(r)
        \/ FetchReturn(r)
        \/ TransformReturn(r)
        \/ UploadReturn(r)
    \/ Tick

Spec == Init /\ [][Next]_vars

\* Requests served one after the other: a request arrives only when no
\* other is in flight.
ArriveAlone(r) ==
    /\ \A o \in Requests : pc[o] \in {"idle", "done"}
    /\ Arrive(r)

NextSerial ==
    \/ \E r \in Requests :
        \/ ArriveAlone(r)
        \/ CreateReturn(r)
        \/ GetPropertiesReturn(r)
        \/ DeleteReturn(r)
        \/ DownloadReturn(r)
        \/ FetchReturn(r)
        \/ TransformReturn(r)
        \/ UploadReturn(r)
    \/ Tick

SpecSerial == Init /\ [][NextSerial]_vars

\* One request of any shape, against a container an earlier process may
\* have written to.
NextSingle ==
    \/ \E r \in {1} :
        \/ ArriveAny(r)
        \/ CreateReturn(r)
        \/ GetPropertiesReturn(r)
        \/ DeleteReturn(r)
        \/ DownloadReturn(r)
        \/ FetchReturn(r)
        \/ TransformReturn(r)
        \/ UploadReturn(r)
    \/ Tick

SpecSingle == InitSeeded /\ [][NextSingle]_vars

\* Requests for one and the same image that may overlap: a race for the
\* handle and for the entry.
\* The first two requests overlap freely; a later one arrives when nothing
\* is in flight.
RaceQueries == {("url" :> <<"a">>)}
Racers == {1, 2}
ArriveRace(r) ==
    /\ r \notin Racers => \A o \in Requests : pc[o] \in {"idle", "done"}
    /\ ArriveFrom(r, RaceQueries)

NextRace ==
    \/ \E r \in Requests :
        \/ ArriveRace(r)
        \/ CreateReturn(r)
        \/ GetPropertiesReturn(r)
        \/ DeleteReturn(r)
        \/ DownloadReturn(r)
        \/ FetchReturn(r)
        \/ TransformReturn(r)
        \/ UploadReturn(r)
    \/ Tick

SpecRace == Init /\ [][NextRace]_vars

\* The cache key alone: every request is given a query with a url, and the
\* handler runs up to the key (lines 102-118).
KeyQueries ==
    {("url" :> u) : u \in {<<"a">>, <<"b">>}}
    \cup {("url" :> <<"a">>) @@ ("w" :> w) : w \in {<<"0">>, <<"2", "0", "0">>}}
    \cup {("url" :> <<"a">>) @@ ("h" :> h) : h \in {<<"0">>, <<"1", "0", "0">>}}
    \cup {("url" :> <<"a">>) @@ ("format" :> <<"p", "n", "g">>)}
    \cup {("url" :> <<"a">>) @@ ("quality" :> k) :
            k \in {<<"0">>, <<"7", "5">>, <<"8", "0">>}}

InitKeys ==
    /\ connectionString \in {NULL, "UseDevelopmentStorage=true"}
    /\ OtherFunctionsIdle
    /\ containerClient = NULL
    /\ containerInitialized = FALSE
    /\ store = EmptyStore
    /\ now = StartTime
    /\ ticks = 0
    /\ pc = [r \in Requests |-> "idle"]
    /\ query \in [Requests -> KeyQueries]
    /\ loc = [r \in Requests |-> NoLocals]
    /\ resp = [r \in Requests |-> NoResponse]
    /\ log = [r \in Requests |-> <<>>]
    /\ started = [r \in Requests |-> [at |-> 0, after |-> {}]]

Fingerprint(r) ==
    /\ pc[r] = "idle"
    /\ ~MissingUrl(query[r])
    /\ loc' = [loc EXCEPT ![r] = Locals(query[r])]
    /\ pc' = [pc EXCEPT ![r] = "keyed"]
    /\ UNCHANGED <<otherVars, connectionString, containerClient, containerInitialized, store,
                   now, ticks, query, resp, log, started>>

NextKeys == \E r \in Requests : Fingerprint(r)

SpecKeys == InitKeys /\ [][NextKeys]_vars

\* -------------------------------------------------- the earlier variant
\* The earlier version of the function (src/unnamed/part_002).  It has no
\* containerInitialized: getContainerClient returns containerClient as soon
\* as it is set (lines 14-16) and sets it before createIfNotExists is
\* awaited (lines 24-27).  The handler does not await cacheImage (line 139):
\* it answers while the upload is still under way.  Everything else is as in
\* the current version.
getContainerClientEntryEarlier ==
    IF containerClient # NULL THEN "cached"
    ELSE IF connectionString = NULL \/ connectionString = "" THEN "throw"
    ELSE "await"

\* Mutant: the client is not assigned before the await.
AssignedBeforeCreateDeferred(r) == containerClient

\* containerClient = blobServiceClient.getContainerClient(CONTAINER_NAME),
\* before the await (line 24).
AssignedBeforeCreate(r) == ClientOf(r)

\* The handler answers the miss and leaves cacheImage running at the await p
\* (lines 139-151).
DetachCacheImage(r, p, buffer) ==
    /\ pc' = [pc EXCEPT ![r] = p]
    /\ resp' = [resp EXCEPT ![r] = MissResponse(loc[r].format, buffer)]

ArriveEarlier(r) ==
    /\ pc[r] = "idle"
    /\ \A o \in Requests : o < r => pc[o] # "idle"
    /\ r \notin Racers => \A o \in Requests : pc[o] \in {"idle", "done"}
    /\ \E q \in RaceQueries :
        /\ query' = [query EXCEPT ![r] = q]
        /\ started' = [started EXCEPT
                         ![r] = [at |-> now, after |-> {o \in Requests : pc[o] = "done"}]]
        /\ IF MissingUrl(q)
           THEN /\ Respond(r, MissingUrlResponse)
                /\ UNCHANGED <<loc, log, containerClient>>
           ELSE CASE getContainerClientEntryEarlier = "cached" ->
                          /\ loc' = [loc EXCEPT ![r] =
                                       [Locals(q) EXCEPT !.container = containerClient]]
                          /\ Goto(r, "getProperties")
                          /\ UNCHANGED <<log, containerClient>>
                     [] getContainerClientEntryEarlier = "throw" ->
                          /\ loc' = [loc EXCEPT ![r] = Locals(q)]
                          /\ LookupThrew(r, ConfigError)
                          /\ Logged(r, Call("getContainerClient", "fault", NoBlob))
                          /\ UNCHANGED containerClient
                     [] getContainerClientEntryEarlier = "await" ->
                          /\ loc' = [loc EXCEPT ![r] = Locals(q)]
                          /\ containerClient' = AssignedBeforeCreate(r)
                          /\ Goto(r, "createForLookup") /\ UNCHANGED log
    /\ UNCHANGED <<otherVars, connectionString, containerInitialized, store, now, ticks>>

\* containerClient.createIfNotExists(...) settles (lines 27-31): the call
\* returns containerClient, or throws and leaves it as it was assigned.
CreateReturnEarlier(r) ==
    /\ pc[r] \in {"createForLookup", "createDetached"}
    /\ \E ok \in BOOLEAN :
        /\ Logged(r, Call("createIfNotExists", IF ok THEN "ok" ELSE "fault", NoBlob))
        /\ IF ok
           THEN /\ loc' = [loc EXCEPT ![r].container = containerClient]
                /\ Goto(r, IF pc[r] = "createForLookup" THEN "getProperties"
                            ELSE "uploadDetached")
           ELSE /\ UNCHANGED loc
                /\ IF pc[r] = "createForLookup"
                   THEN LookupThrew(r, StoreError)
                   ELSE Goto(r, "done")
    /\ UNCHANGED <<otherVars, connectionString, containerClient, containerInitialized, store,
                   now, ticks, query, started>>

\* sharp(...).toBuffer() settles (lines 129-136); cacheImage is called and
\* not awaited, and the handler answers (lines 139-151).
TransformReturnEarlier(r) ==
    /\ pc[r] = "transform"
    /\ \/ LET buffer == Transform(loc[r].data, loc[r].width, loc[r].height,
                                  loc[r].format, loc[r].quality)
          IN  CASE getContainerClientEntryEarlier = "cached" ->
                        /\ loc' = [loc EXCEPT ![r].buffer = buffer,
                                              ![r].container = containerClient]
                        /\ DetachCacheImage(r, "uploadDetached", buffer)
                        /\ Logged(r, Call("transform", "ok", NoBlob))
                        /\ UNCHANGED containerClient
                   [] getContainerClientEntryEarlier = "throw" ->
                        /\ loc' = [loc EXCEPT ![r].buffer = buffer]
                        /\ DetachCacheImage(r, "done", buffer)
                        /\ log' = [log EXCEPT ![r] =
                                     @ \o <<Call("transform", "ok", NoBlob),
                                            Call("getContainerClient", "fault", NoBlob)>>]
                        /\ UNCHANGED containerClient
                   [] getContainerClientEntryEarlier = "await" ->
                        /\ loc' = [loc EXCEPT ![r].buffer = buffer]
                        /\ containerClient' = AssignedBeforeCreate(r)
                        /\ DetachCacheImage(r, "createDetached", buffer)
                        /\ Logged(r, Call("transform", "ok", NoBlob))
       \/ /\ Logged(r, Call("transform", "fault", NoBlob))
          /\ UNCHANGED <<loc, containerClient>>
          /\ Respond(r, ErrorResponse(CodecError))
    /\ UNCHANGED <<otherVars, connectionString, containerInitialized, store, now, ticks, query,
                   started>>

\* blockBlobClient.upload() settles (lines 79-87), after the handler has
\* answered.
UploadReturnEarlier(r) ==
    /\ pc[r] = "uploadDetached"
    /\ \/ /\ store' = Put(store, PersistBlob(r),
                           UploadedBlob(loc[r].buffer, loc[r].format, now))
          /\ Logged(r, [Call("upload", "ok", PersistBlob(r)) EXCEPT !.at = now])
       \/ /\ UNCHANGED store
          /\ Logged(r, Call("upload", "fault", PersistBlob(r)))
    /\ Goto(r, "done")
    /\ UNCHANGED <<otherVars, connectionString, containerClient, containerInitialized, now,
                   ticks, query, loc, started>>

NextEarlier ==
    \/ \E r \in Requests :
        \/ ArriveEarlier(r)
        \/ CreateReturnEarlier(r)
        \/ GetPropertiesReturn(r)
        \/ DeleteReturn(r)
        \/ DownloadReturn(r)
        \/ FetchReturn(r)
        \/ TransformReturnEarlier(r)
        \/ UploadReturnEarlier(r)
    \/ Tick

SpecEarlier == Init /\ [][NextEarlier]_vars

\* ===================================================================
\* Properties
\* ===================================================================
Finished(r) == pc[r] = "done"
Did(r, op) == \E i \in DOMAIN log[r] : log[r][i].op = op
DidWith(r, op, res) ==
    \E i \in DOMAIN log[r] : log[r][i].op = op /\ log[r][i].res = res
HasUrl(r) == "url" \in DOMAIN query[r] /\ query[r]["url"] # <<>>
XCache(r) == resp[r].headers["X-Cache"]

HandleOps == {"getContainerClient", "createIfNotExists"}
BlobOps == {"getProperties", "deleteIfExists", "download", "upload"}
PipelineOps == {"fetch", "transform"}

\* A blob operation of the request was rejected by the store.
BlobFault(r) ==
    \E i \in DOMAIN log[r] :
        /\ log[r][i].op \in BlobOps
        /\ \/ log[r][i].res = "fault"
           \/ log[r][i].op = "download" /\ log[r][i].res = "notFound"
\* Constructing the handle failed in the request.
HandleFault(r) ==
    \E i \in DOMAIN log[r] : log[r][i].op \in HandleOps /\ log[r][i].res = "fault"
\* The origin fetch or the transform of the request threw.
PipelineFault(r) ==
    \E i \in DOMAIN log[r] : log[r][i].op \in PipelineOps /\ log[r][i].res = "fault"
PipelineSucceeded(r) == DidWith(r, "fetch", "ok") /\ DidWith(r, "transform", "ok")

\* The bytes the pipeline makes for the request: the origin's bytes for its
\* url, resized to its effective dimensions and encoded as asked.
FreshBytes(r) ==
    [kind |-> "image", src |-> [kind |-> "origin", url |-> Str(query[r]["url"])],
     width |-> loc[r].width, height |-> loc[r].height, fit |-> "cover",
     format |-> loc[r].format, quality |-> loc[r].quality]

IsMiss(r) == resp[r].status = 200 /\ XCache(r) = "MISS"
IsHit(r) == resp[r].status = 200 /\ XCache(r) = "HIT"

\* ------------------------------------------------------------------ C1
\* The premises of cache idempotence for a first request f and a second
\* request s: s arrives after f has answered, both carry the same query with
\* a url, f found no entry, no store or handle operation of either failed,
\* neither pipeline step failed, and less than the staleness threshold has
\* passed since f arrived.
TwiceInSequence(f, s) ==
    /\ Finished(f) /\ Finished(s)
    /\ f \in started[s].after
    /\ HasUrl(f) /\ query[s] = query[f]
    /\ DidWith(f, "getProperties", "notFound")
    /\ ~BlobFault(f) /\ ~BlobFault(s) /\ ~HandleFault(f) /\ ~HandleFault(s)
    /\ ~PipelineFault(f) /\ ~PipelineFault(s)
    /\ now - started[f].at < BLOB_CACHE_MAX_AGE_MS

\* C1: the identical request issued twice in sequence against a working store
\* that holds no entry for it, within the staleness threshold, is answered
\* 200 MISS and then 200 HIT, with the same body.
C1_CacheIdempotence ==
    \A f, s \in Requests :
        TwiceInSequence(f, s) =>
            /\ IsMiss(f)
            /\ IsHit(s)
            /\ resp[s].body = resp[f].body

C1_Witness ==
    \E f, s \in Requests :
        /\ TwiceInSequence(f, s)
        /\ IsMiss(f) /\ IsHit(s)
        /\ resp[s].body = resp[f].body
        /\ resp[f].body.kind = "image"

\* ------------------------------------------------------------------ C2
\* C2: a request whose lookup returned bytes (its download succeeded) answers
\* with exactly the bytes stored under its blob name at that moment, as a
\* hit, and has made no origin fetch, no transform and no upload.
C2_FreshHitSkipsPipeline ==
    [][\A r \in Requests :
          (pc[r] = "download" /\ DidWith(r, "download", "ok")')
              => /\ pc'[r] = "done"
                 /\ resp'[r].status = 200
                 /\ resp'[r].body = store[LookupBlob(r)].bytes
                 /\ resp'[r].headers["X-Cache"] = "HIT"
                 /\ ~Did(r, "fetch")' /\ ~Did(r, "transform")' /\ ~Did(r, "upload")'
                 /\ store' = store]_vars

C2_Witness ==
    \E r \in Requests :
        /\ Finished(r) /\ DidWith(r, "download", "ok")
        /\ IsHit(r) /\ resp[r].body.kind = "image"
        /\ ~Did(r, "fetch")

\* ------------------------------------------------------------------ C3
\* The request read the properties of an entry whose timestamp was older
\* than the threshold when it was read.
SawStale(r) ==
    \E i \in DOMAIN log[r] :
        /\ log[r][i].op = "getProperties" /\ log[r][i].res = "ok"
        /\ log[r][i].lm >= 0
        /\ log[r][i].at - log[r][i].lm > 86400000

\* C3: a request that finds its entry older than the threshold issues
\* deleteIfExists on that blob, never downloads it, runs the pipeline, and is
\* answered MISS with fresh bytes when the pipeline succeeds; never HIT.
C3_StalenessEviction ==
    \A r \in Requests :
        SawStale(r) =>
            /\ pc[r] = "deleteIfExists" \/ Did(r, "deleteIfExists")
            /\ \A i \in DOMAIN log[r] :
                   log[r][i].op = "deleteIfExists"
                       => log[r][i].blob = [key |-> loc[r].cacheKey, ext |-> loc[r].format]
            /\ ~Did(r, "download")
            /\ Finished(r) =>
                   /\ Did(r, "fetch")
                   /\ resp[r].status \in {200, 500}
                   /\ resp[r].status = 200 => XCache(r) = "MISS" /\ resp[r].body = FreshBytes(r)
                   /\ PipelineSucceeded(r) => resp[r].status = 200

C3_Witness ==
    \E r \in Requests :
        /\ SawStale(r) /\ Finished(r) /\ Did(r, "deleteIfExists")
        /\ IsMiss(r) /\ resp[r].body = FreshBytes(r)

\* ------------------------------------------------------------------ C4
\* C4: a request in which some blob operation faulted still runs the
\* pipeline; it is answered 500 only if the pipeline failed, and 200 MISS with
\* the freshly transformed bytes if the pipeline succeeded.
C4_FailOpenOnStoreFault ==
    \A r \in Requests :
        (Finished(r) /\ BlobFault(r)) =>
            /\ Did(r, "fetch")
            /\ resp[r].status = 500 => PipelineFault(r)
            /\ PipelineSucceeded(r) => IsMiss(r) /\ resp[r].body = FreshBytes(r)

C4_Witness ==
    \E r \in Requests :
        /\ Finished(r) /\ DidWith(r, "upload", "fault")
        /\ \E i \in DOMAIN log[r] :
               log[r][i].op \in {"getProperties", "download", "deleteIfExists"}
               /\ log[r][i].res = "fault"
        /\ IsMiss(r) /\ resp[r].body = FreshBytes(r)

\* ------------------------------------------------------------------ C5
\* C5: a request whose origin fetch or transform failed is answered 500 with
\* a body "Error processing image: <cause>", and has issued no upload (nor
\* begun one).
C5_FailureSurfacing ==
    \A r \in Requests :
        PipelineFault(r) =>
            /\ Finished(r)
            /\ resp[r].status = 500
            /\ \E cause \in {FetchError, CodecError} :
                   resp[r].body = "Error processing image: " \o cause
            /\ ~Did(r, "upload")
            /\ loc[r].buffer = NoBytes

C5_Witness ==
    \E r, o \in Requests :
        /\ Finished(r) /\ DidWith(r, "fetch", "fault") /\ resp[r].status = 500
        /\ Finished(o) /\ DidWith(o, "transform", "fault") /\ resp[o].status = 500
        /\ LookupBlob(r) \notin DOMAIN store

\* ------------------------------------------------------------------ C6
\* No blob operation of the request was made.
NoBlobOp(r) == \A i \in DOMAIN log[r] : log[r][i].op \notin BlobOps

\* C6 as claimed: a request in which the handle could not be constructed is
\* answered with a 500-class status, and with the credential absent every
\* request carrying a url is.
C6_Claimed_HandleFailClosed ==
    \A r \in Requests :
        /\ (Finished(r) /\ HandleFault(r)) => resp[r].status \in 500..599
        /\ (Finished(r) /\ HasUrl(r) /\ connectionString = NULL)
               => resp[r].status \in 500..599

\* C6 (amended): a failed handle construction is swallowed by getCachedImage
\* and cacheImage.  The request goes on to the pipeline, is answered 500
\* exactly when the pipeline failed and 200 MISS with fresh bytes when it
\* succeeded; with the credential absent the handle stays unset and every
\* request carrying a url runs without any blob operation.
C6_HandleFailureSwallowed ==
    \A r \in Requests :
        /\ (Finished(r) /\ HandleFault(r)) =>
               /\ Did(r, "fetch")
               /\ resp[r].status = 500 <=> PipelineFault(r)
               /\ PipelineSucceeded(r) => IsMiss(r) /\ resp[r].body = FreshBytes(r)
        /\ connectionString = NULL =>
               /\ containerClient = NULL /\ ~containerInitialized
               /\ (pc[r] # "idle" /\ HasUrl(r)) => HandleFault(r) /\ NoBlobOp(r)

C6_Witness ==
    \E r, o \in Requests :
        /\ connectionString = NULL
        /\ Finished(r) /\ HandleFault(r) /\ IsMiss(r) /\ resp[r].body = FreshBytes(r)
        /\ Finished(o) /\ HandleFault(o) /\ resp[o].status = 500

\* ------------------------------------------------------------------ C7
RequestedFormat(r) ==
    IF "format" \in DOMAIN query[r] /\ query[r]["format"] # <<>>
    THEN Str(query[r]["format"]) ELSE "webp"

\* C7: every 200 response carries Content-Type image/<format>, Cache-Control
\* "public, max-age=604800" and X-Cache, which is HIT exactly when the body
\* was downloaded from the store and MISS exactly when it was made by the
\* pipeline in this request.
C7_HeaderContract ==
    \A r \in Requests :
        (Finished(r) /\ resp[r].status = 200) =>
            /\ DOMAIN resp[r].headers = {"Content-Type", "Cache-Control", "X-Cache"}
            /\ resp[r].headers["Content-Type"] = "image/" \o RequestedFormat(r)
            /\ resp[r].headers["Cache-Control"] = "public, max-age=604800"
            /\ XCache(r) \in {"HIT", "MISS"}
            /\ XCache(r) = "HIT" <=> DidWith(r, "download", "ok")
            /\ XCache(r) = "MISS" <=> DidWith(r, "transform", "ok")
            /\ XCache(r) = "HIT" => ~Did(r, "transform")
            /\ XCache(r) = "MISS" => resp[r].body = FreshBytes(r)

C7_Witness ==
    \E r, o \in Requests :
        /\ Finished(r) /\ IsMiss(r) /\ resp[r].headers["Content-Type"] = "image/png"
        /\ Finished(o) /\ IsHit(o) /\ resp[o].headers["Content-Type"] = "image/png"
        /\ resp[o].headers["Cache-Control"] = resp[r].headers["Cache-Control"]

\* ------------------------------------------------------------------ C8
NoUrl(q) == "url" \notin DOMAIN q \/ q["url"] = <<>>

\* C8: the arrival of a request without a url (absent or empty) answers it
\* 400 with the plain-text body at once, makes no external call, and leaves
\* the store and the process-wide handle as they were.
C8_MissingUrlTouchesNothing ==
    [][\A r \in Requests :
          (pc[r] = "idle" /\ pc'[r] # "idle" /\ NoUrl(query'[r])) =>
              /\ pc'[r] = "done"
              /\ resp'[r].status = 400
              /\ resp'[r].body = "Missing 'url' query parameter."
              /\ DOMAIN resp'[r].headers = {}
              /\ log'[r] = <<>>
              /\ store' = store
              /\ containerClient' = containerClient
              /\ containerInitialized' = containerInitialized]_vars

C8_Witness ==
    \E r, o \in Requests :
        /\ Finished(r) /\ "url" \notin DOMAIN query[r] /\ resp[r].status = 400
        /\ Finished(o) /\ "url" \in DOMAIN query[o] /\ query[o]["url"] = <<>>
        /\ resp[o].status = 400 /\ log[o] = <<>>
        /\ containerClient = NULL

\* ------------------------------------------------------------ C9, C10
\* Integers a caller supplies as w or h.
SampleIntegers == (-5..5) \cup {100, 200, 1023, 1024, 1025, 2000, 5000}
\* The request carries the parameter with the decimal numeral of n.
Supplied(r, name, n) ==
    name \in DOMAIN query[r] /\ Str(query[r][name]) = ToString(n)
NotSupplied(r, name) == name \notin DOMAIN query[r] \/ query[r][name] = <<>>
Dimension(r, name) == IF name = "w" THEN loc[r].width ELSE loc[r].height

\* C9: for every integer n supplied as w (h) the effective width (height) is
\* min(n, 1024), used in the cache key and in the resize; it is undefined
\* when the parameter is not supplied.
C9_BoundaryClamping ==
    \A r \in Requests :
        (pc[r] # "idle" /\ HasUrl(r)) =>
            /\ \A name \in {"w", "h"} :
                   /\ \A n \in SampleIntegers :
                          Supplied(r, name, n) =>
                              Dimension(r, name)
                                  = [t |-> "number", v |-> IF n < 1024 THEN n ELSE 1024]
                   /\ NotSupplied(r, name) =>
                          Dimension(r, name) = [t |-> "undefined", v |-> 0]
            /\ loc[r].cacheKey =
                   generateCacheKey(loc[r].url, loc[r].width, loc[r].height,
                                    loc[r].format, loc[r].quality)
            /\ (Finished(r) /\ resp[r].status = 200 /\ DidWith(r, "transform", "ok")) =>
                   /\ resp[r].body.width = loc[r].width
                   /\ resp[r].body.height = loc[r].height

C9_Witness ==
    \E r \in Requests :
        /\ Supplied(r, "w", 5000) /\ Supplied(r, "h", -1)
        /\ Finished(r) /\ IsMiss(r)
        /\ resp[r].body.width = [t |-> "number", v |-> 1024]
        /\ resp[r].body.height = [t |-> "number", v |-> -1]

\* The parameter is supplied as the numeral of some integer.
SuppliedInteger(r, name) == \E n \in SampleIntegers : Supplied(r, name, n)

\* C10 as claimed: a supplied integer dimension reaches the cache manager as
\* an integer in 0..1024.
C10_Claimed_RangeZeroTo1024 ==
    \A r \in Requests : \A name \in {"w", "h"} :
        (pc[r] # "idle" /\ HasUrl(r) /\ SuppliedInteger(r, name)) =>
            /\ Dimension(r, name).t = "number"
            /\ Dimension(r, name).v \in 0..1024

\* C10 (amended): a supplied integer dimension reaches the cache manager as
\* an integer of at most 1024; nothing bounds it from below.
C10_AtMost1024 ==
    \A r \in Requests : \A name \in {"w", "h"} :
        (pc[r] # "idle" /\ HasUrl(r) /\ SuppliedInteger(r, name)) =>
            /\ Dimension(r, name).t = "number"
            /\ Dimension(r, name).v \in Int
            /\ Dimension(r, name).v <= 1024

C10_Witness ==
    \E r \in Requests :
        /\ Supplied(r, "w", -5)
        /\ DidWith(r, "getProperties", "notFound") /\ DidWith(r, "transform", "ok")
        /\ loc[r].width.v = -5
        /\ loc[r].buffer.width.v = -5

\* ----------------------------------------------------------------- C11
KeyFields == {"url", "width", "height", "format", "quality"}
\* The blob names the request has named in calls of the store.
BlobsNamed(r) == {log[r][i].blob : i \in {j \in DOMAIN log[r] : log[r][j].op \in BlobOps}}
Keyed(r) == pc[r] # "idle" /\ HasUrl(r)

\* C11: every request with a url gets a key, and two requests whose url,
\* width, height, format and quality are equal have the same key and name the
\* same blob "<key>.<format>" in every call of the store, whatever the time,
\* the state of the handle and of the store, and the requests served before.
C11_FingerprintDeterminism ==
    \A a, b \in Requests :
        /\ Keyed(a) => loc[a].cacheKey # <<>>
        /\ (Keyed(a) /\ Keyed(b) /\ \A f \in KeyFields : loc[a][f] = loc[b][f]) =>
               /\ loc[a].cacheKey = loc[b].cacheKey
               /\ \A n \in BlobsNamed(a) \cup BlobsNamed(b) :
                      n = [key |-> loc[a].cacheKey, ext |-> loc[b].format]

\* The same request served twice: first with no handle and an empty store,
\* then, later on the clock, with the handle cached and the entry stored.
C11_Witness ==
    \E a, b \in Requests :
        /\ a # b /\ Finished(a) /\ Finished(b) /\ HasUrl(a)
        /\ \A f \in KeyFields : loc[a][f] = loc[b][f]
        /\ started[a].at < started[b].at
        /\ DidWith(a, "createIfNotExists", "ok") /\ DidWith(a, "upload", "ok")
        /\ ~Did(b, "createIfNotExists") /\ DidWith(b, "getProperties", "ok")
        /\ loc[a].cacheKey = loc[b].cacheKey
        /\ BlobsNamed(a) = BlobsNamed(b)

\* ----------------------------------------------------------------- C12
\* The fields the claim ranges over: width and height absent or an integer,
\* quality an integer.
InClaimedRange(r) ==
    /\ loc[r].width.t \in {"undefined", "number"}
    /\ loc[r].height.t \in {"undefined", "number"}
    /\ loc[r].quality.t = "number"
HashedString(r) ==
    CanonicalString(loc[r].url, loc[r].width, loc[r].height, loc[r].format,
                    loc[r].quality)

\* C12 as claimed: two requests that differ in exactly one of url, width,
\* height, format and quality have different hashed strings and different
\* keys.
C12_Claimed_Sensitivity ==
    \A a, b \in Requests :
        (/\ pc[a] = "keyed" /\ pc[b] = "keyed"
         /\ InClaimedRange(a) /\ InClaimedRange(b)
         /\ Cardinality({f \in KeyFields : loc[a][f] # loc[b][f]}) = 1)
            => /\ HashedString(a) # HashedString(b)
               /\ loc[a].cacheKey # loc[b].cacheKey

\* ----------------------------------------------------------------- C13
\* Each of the two requests arrived before the other had answered.
Concurrent(a, b) ==
    /\ a # b /\ pc[a] # "idle" /\ pc[b] # "idle"
    /\ a \notin started[b].after /\ b \notin started[a].after
\* The lookup of the request found no entry.
Missed(r) == DidWith(r, "getProperties", "notFound")
\* The successful upload calls of the request.
PutsDone(r) == {i \in DOMAIN log[r] : log[r][i].op = "upload" /\ log[r][i].res = "ok"}

\* C13: two overlapping requests with the same key that both find no entry
\* each make their own origin fetch, transform and upload; when their
\* pipelines succeed both are answered 200 MISS with the bytes they made
\* themselves.  Every upload that succeeds replaces the entry under the name,
\* so the entry left is the one of the upload that completed last.
C13_NoSingleFlight ==
    /\ [](\A a, b \in Requests :
            (/\ Concurrent(a, b) /\ Finished(a) /\ Finished(b)
             /\ loc[a].cacheKey = loc[b].cacheKey /\ loc[a].format = loc[b].format
             /\ Missed(a) /\ Missed(b)
             /\ ~PipelineFault(a) /\ ~PipelineFault(b))
                => \A r \in {a, b} :
                       /\ DidWith(r, "fetch", "ok") /\ DidWith(r, "transform", "ok")
                       /\ Did(r, "upload")
                       /\ log[r][Len(log[r])].op = "upload"
                       /\ IsMiss(r)
                       /\ resp[r].body = loc[r].buffer
                       /\ loc[r].buffer.src = loc[r].data)
    /\ [][\A r \in Requests :
             PutsDone(r)' # PutsDone(r) =>
                 /\ pc[r] = "upload"
                 /\ [key |-> loc[r].cacheKey, ext |-> loc[r].format] \in DOMAIN store'
                 /\ LET entry == store'[[key |-> loc[r].cacheKey, ext |-> loc[r].format]]
                    IN  /\ entry.bytes = loc[r].buffer
                        /\ entry.lastModified = now]_vars

\* Both requests missed, both uploaded, one after the other on the clock; the
\* entry is the later one's.
C13_Witness ==
    \E a, b \in Requests :
        /\ Concurrent(a, b) /\ Finished(a) /\ Finished(b)
        /\ loc[a].cacheKey = loc[b].cacheKey
        /\ Missed(a) /\ Missed(b) /\ IsMiss(a) /\ IsMiss(b)
        /\ \E i \in PutsDone(a), j \in PutsDone(b) :
               /\ log[a][i].at < log[b][j].at
               /\ store[PersistBlob(b)].lastModified = log[b][j].at
               /\ store[PersistBlob(b)].bytes = resp[b].body

\* ----------------------------------------------------------------- C14
\* The handle is the client of a request whose createIfNotExists succeeded.
Created(h) ==
    \E o \in Requests :
        h = "ContainerClient" \o ToString(o) /\ DidWith(o, "createIfNotExists", "ok")

\* C14: whatever the interleaving of the calls of getContainerClient, the
\* flag is set only together with a handle whose container creation
\* succeeded, a request holds (and calls the store on) only such a handle,
\* and a cached handle is never cleared.
C14_HandleSafeUnderRaces ==
    /\ [](/\ containerInitialized <=> containerClient # NULL
          /\ containerInitialized => Created(containerClient)
          /\ \A r \in Requests :
                 /\ loc[r].container # NULL => Created(loc[r].container)
                 /\ (pc[r] \in {"getProperties", "deleteIfExists", "download", "upload"}
                        \/ ~NoBlobOp(r))
                       => loc[r].container # NULL)
    /\ [][/\ containerClient # NULL => containerClient' # NULL
          /\ containerInitialized => containerInitialized']_vars

\* Two requests called getContainerClient before either creation had
\* settled; both creations succeeded, and each request holds its own client.
C14_Witness ==
    \E a, b \in Requests :
        /\ a # b
        /\ Len(log[a]) > 0 /\ log[a][1].op = "createIfNotExists" /\ log[a][1].res = "ok"
        /\ Len(log[b]) > 0 /\ log[b][1].op = "createIfNotExists" /\ log[b][1].res = "ok"
        /\ containerInitialized /\ containerClient = loc[b].container
        /\ loc[a].container # NULL /\ loc[a].container # loc[b].container

\* ----------------------------------------------------------------- C15
CreatePending(r) == pc[r] \in {"createForLookup", "createForPersist"}
\* The step holds a call of getContainerClient by the request: the one of
\* getCachedImage when it arrives, the one of cacheImage when its transform
\* has succeeded.
CallsGetContainerClient(r) ==
    \/ pc[r] = "idle" /\ pc'[r] # "idle" /\ ~NoUrl(query'[r])
    \/ pc[r] = "transform" /\ DidWith(r, "transform", "ok")'

\* C15: a call of getContainerClient made once a call has succeeded returns
\* the cached handle, without a createIfNotExists and without changing the
\* handle or the flag; the cached handle stays the same once no call that
\* began earlier is still pending.  With the credential absent every call
\* throws before the store is contacted, and the handle and the flag stay
\* unset.
C15_EnsureReadyIdempotent ==
    /\ [][\A r \in Requests :
             /\ (containerInitialized /\ CallsGetContainerClient(r)) =>
                    /\ loc'[r].container = containerClient
                    /\ ~CreatePending(r)'
                    /\ ~Did(r, "createIfNotExists")' \/ Did(r, "createIfNotExists")
                    /\ containerClient' = containerClient
                    /\ containerInitialized'
             /\ (containerInitialized /\ \A o \in Requests : ~CreatePending(o)) =>
                    containerClient' = containerClient
             /\ (connectionString = "null" /\ CallsGetContainerClient(r)) =>
                    /\ Len(log'[r]) > Len(log[r])
                    /\ log'[r][Len(log'[r])].op = "getContainerClient"
                    /\ log'[r][Len(log'[r])].res = "fault"
                    /\ containerClient' = containerClient
                    /\ containerInitialized' = containerInitialized]_vars
    /\ [](connectionString = "null" =>
             /\ containerClient = "null" /\ ~containerInitialized
             /\ \A r \in Requests : \A i \in DOMAIN log[r] :
                    log[r][i].op \notin BlobOps \cup {"createIfNotExists"})

\* A request served by the handle another request's call had cached: it
\* made no createIfNotExists, in getCachedImage or in cacheImage.
C15_Witness ==
    \E r, o \in Requests :
        /\ r # o /\ DidWith(o, "createIfNotExists", "ok")
        /\ Finished(r) /\ ~Did(r, "createIfNotExists")
        /\ DidWith(r, "getProperties", "notFound") /\ Did(r, "upload")
        /\ loc[r].container = containerClient
        /\ containerClient = loc[o].container

\* ----------------------------------------------------------------- C16
\* The steps the claim counts; a request waiting for one is suspended at the
\* await of that name.
CountedOps ==
    {"getProperties", "download", "deleteIfExists", "fetch", "transform", "upload"}
TimesDone(r, op) == Cardinality({i \in DOMAIN log[r] : log[r][i].op = op})

\* C16: a request makes each of the property lookup, the download, the
\* deleteIfExists, the origin fetch, the transform and the upload at most
\* once, failed or not: none is in its log twice, and the one it is waiting
\* for is not in its log yet.
C16_NoInternalRetries ==
    \A r \in Requests : \A op \in CountedOps :
        /\ TimesDone(r, op) <= 1
        /\ pc[r] = op => TimesDone(r, op) = 0

\* A request whose lookup and whose upload both failed, each tried once.
C16_Witness ==
    \E r \in Requests :
        /\ Finished(r)
        /\ DidWith(r, "deleteIfExists", "fault") /\ DidWith(r, "upload", "fault")
        /\ TimesDone(r, "getProperties") = 1 /\ TimesDone(r, "deleteIfExists") = 1
        /\ TimesDone(r, "fetch") = 1 /\ TimesDone(r, "transform") = 1
        /\ TimesDone(r, "upload") = 1

\* ----------------------------------------------------------------- C17
\* The createIfNotExists of the request settles in the step, with this result.
CreateSettles(r, res) ==
    /\ CreatePending(r)
    /\ Len(log'[r]) = Len(log[r]) + 1
    /\ log'[r][Len(log'[r])].op = "createIfNotExists"
    /\ log'[r][Len(log'[r])].res = res

\* C17: when createIfNotExists fails the handle stays null and the flag
\* false, and the caller sees the error (getCachedImage turns it into a miss,
\* cacheImage drops it); a call made while the handle is unset and the
\* credential present attempts the creation anew, and when that succeeds the
\* handle is cached.
C17_FailedInitNotCached ==
    [][\A r \in Requests :
          /\ CreateSettles(r, "fault") =>
                 /\ containerClient = "null" /\ containerClient' = "null"
                 /\ ~containerInitialized /\ ~containerInitialized'
                 /\ loc'[r].container = "null"
                 /\ pc[r] = "createForLookup" => pc'[r] = "fetch"
                 /\ pc[r] = "createForPersist" => pc'[r] = "done" /\ IsMiss(r)'
          /\ (CallsGetContainerClient(r) /\ ~containerInitialized
                 /\ connectionString # "null") => CreatePending(r)'
          /\ CreateSettles(r, "ok") =>
                 /\ containerInitialized'
                 /\ containerClient' = "ContainerClient" \o ToString(r)
                 /\ loc'[r].container = containerClient']_vars

\* The creation failed in a request's lookup and succeeded when the same
\* request came to store its image; the next request found the handle cached.
C17_Witness ==
    \E r, o \in Requests :
        /\ Len(log[r]) > 0
        /\ log[r][1].op = "createIfNotExists" /\ log[r][1].res = "fault"
        /\ DidWith(r, "createIfNotExists", "ok") /\ DidWith(r, "upload", "ok")
        /\ containerInitialized /\ containerClient = loc[r].container
        /\ r \in started[o].after /\ DidWith(o, "getProperties", "ok")

\* ----------------------------------------------------------------- C18
\* The createIfNotExists calls made so far, by all requests.
CreatesMade ==
    UNION {{<<r, i>> : i \in {j \in DOMAIN log[r] : log[r][j].op = "createIfNotExists"}} :
             r \in Requests}

\* C18: in the earlier variant the client is cached from before its
\* createIfNotExists is awaited.  A call made once it is set returns it, with
\* no createIfNotExists, whether that creation is pending, has failed or has
\* succeeded; a failed creation leaves it cached; so the container creation
\* is attempted once in the life of the process.
C18_EarlierVariantCachesEarly ==
    /\ [][\A r \in Requests :
             /\ (containerClient # "null" /\ CallsGetContainerClient(r)) =>
                    /\ loc'[r].container = containerClient
                    /\ pc'[r] \notin {"createForLookup", "createDetached"}
             /\ containerClient # "null" => containerClient' = containerClient
             /\ CreateSettles(r, "fault") =>
                    containerClient' = "ContainerClient" \o ToString(r)]_vars
    /\ [](Cardinality(CreatesMade) <= 1)

\* A request holds the handle, and has called the store on it, while the
\* createIfNotExists of the request that made the handle is still pending.
C18_Witness ==
    \E a, b \in Requests :
        /\ a # b /\ pc[a] = "createForLookup"
        /\ containerClient = "ContainerClient" \o ToString(a)
        /\ loc[b].container = containerClient
        /\ Did(b, "getProperties")

\* ----------------------------------------------------------------- C19
LookupOps == {"getContainerClient", "createIfNotExists", "getProperties",
              "deleteIfExists", "download"}
OpsOf(r) == [i \in DOMAIN log[r] |-> log[r][i].op]
\* The i-th call of the request read properties that were stale when read.
StaleAt(r, i) ==
    /\ log[r][i].op = "getProperties" /\ log[r][i].res = "ok"
    /\ log[r][i].lm >= 0
    /\ log[r][i].at - log[r][i].lm > 86400000

\* C19: in the calls of a request, in order: the lookup comes first and all
\* of it before the origin fetch; deleteIfExists follows at once on a
\* property read that found the entry stale, and nothing else; the transform
\* follows a successful fetch; the upload follows a successful transform and
\* the handle; a MISS is answered only when the upload, or the construction
\* of the handle for it, has settled, and a HIT right after the download.
C19_PerRequestOrdering ==
    \A r \in Requests : \A i \in DOMAIN log[r] :
        LET e == log[r][i]
        IN  /\ log[r][1].op \in LookupOps
            /\ e.op = "fetch" =>
                   \A j \in DOMAIN log[r] :
                       log[r][j].op \in {"getProperties", "deleteIfExists", "download"}
                           => j < i
            /\ e.op = "deleteIfExists" => i > 1 /\ StaleAt(r, i - 1)
            /\ (i > 1 /\ StaleAt(r, i - 1)) => e.op = "deleteIfExists"
            /\ e.op = "download" =>
                   /\ i > 1 /\ log[r][i - 1].op = "getProperties"
                   /\ log[r][i - 1].res = "ok"
            /\ e.op = "transform" =>
                   i > 1 /\ log[r][i - 1].op = "fetch" /\ log[r][i - 1].res = "ok"
            /\ e.op = "upload" =>
                   \E j \in 1..(i - 1) :
                       /\ log[r][j].op = "transform" /\ log[r][j].res = "ok"
                       /\ \A k \in (j + 1)..(i - 1) : log[r][k].op = "createIfNotExists"
            /\ (Finished(r) /\ resp[r].status = 200 /\ i = Len(log[r])) =>
                   /\ XCache(r) = "MISS" =>
                          /\ e.op \in {"upload", "createIfNotExists", "getContainerClient"}
                          /\ \E j \in 1..(i - 1) : log[r][j].op = "transform"
                   /\ XCache(r) = "HIT" => e.op = "download" /\ e.res = "ok"
            /\ (e.op \in {"fetch", "transform"} /\ e.res = "fault") =>
                   i = Len(log[r]) /\ Finished(r) /\ resp[r].status = 500

\* A request on the stale branch: exactly the calls getProperties,
\* deleteIfExists, fetch, transform, upload, in this order, then MISS.
C19_Witness ==
    \E r \in Requests :
        /\ Finished(r) /\ IsMiss(r)
        /\ OpsOf(r) = <<"getProperties", "deleteIfExists", "fetch", "transform", "upload">>
        /\ StaleAt(r, 1)
        /\ store[PersistBlob(r)].bytes = resp[r].body

\* ----------------------------------------------------------------- C20
\* The i-th call of the request read the properties of an entry that had no
\* lastModified, or one of age at most 86400000 ms when read.
NotStaleAt(r, i) ==
    /\ log[r][i].op = "getProperties" /\ log[r][i].res = "ok"
    /\ log[r][i].lm = -1 \/ log[r][i].at - log[r][i].lm <= 86400000

\* C20: a request that reads properties without lastModified, or with an age
\* of 86400000 ms or less, issues no deleteIfExists and goes on to download
\* the entry; when the download succeeds it is answered HIT with the stored
\* bytes, and the entry is still in the store.  (An age of 86400001 ms is
\* stale: C3.)
C20_StrictStaleness ==
    \A r \in Requests : \A i \in DOMAIN log[r] :
        NotStaleAt(r, i) =>
            /\ ~Did(r, "deleteIfExists") /\ pc[r] # "deleteIfExists"
            /\ i = Len(log[r]) => pc[r] = "download"
            /\ i < Len(log[r]) => log[r][i + 1].op = "download"
            /\ DidWith(r, "download", "ok") =>
                   /\ IsHit(r)
                   /\ log[r][i].blob \in DOMAIN store
                   /\ resp[r].body = store[log[r][i].blob].bytes
                   /\ ~Did(r, "fetch")

\* An entry read at the age of exactly 86400000 ms and served as a HIT.
C20_Witness ==
    \E r \in Requests : \E i \in DOMAIN log[r] :
        /\ log[r][i].op = "getProperties" /\ log[r][i].res = "ok"
        /\ log[r][i].lm >= 0 /\ log[r][i].at - log[r][i].lm = 86400000
        /\ Finished(r) /\ IsHit(r)
        /\ store[log[r][i].blob].lastModified = log[r][i].lm

\* ----------------------------------------------------------------- C21
\* C21: every call of the store a request makes, reading or writing, names
\* the blob "<cacheKey>.<format>" of its own key and format; every entry put
\* carries the content type "image/<format>" of its name and the
\* cache-control "public, max-age=604800", the value of the Cache-Control
\* header of the responses.
C21_SameObjectAndMetadata ==
    /\ \A r \in Requests : \A i \in DOMAIN log[r] :
           log[r][i].op \in BlobOps =>
               /\ log[r][i].blob.key = loc[r].cacheKey
               /\ log[r][i].blob.ext = RequestedFormat(r)
    /\ \A b \in DOMAIN store :
           /\ store[b].blobContentType = "image/" \o b.ext
           /\ store[b].blobCacheControl = "public, max-age=604800"
           /\ \A r \in Requests :
                  (Finished(r) /\ resp[r].status = 200) =>
                      resp[r].headers["Cache-Control"] = store[b].blobCacheControl

\* A request that looked its blob up, found none, and wrote it under the
\* same name; the entry is in the store with its metadata.
C21_Witness ==
    \E r \in Requests : \E i, j \in DOMAIN log[r] :
        /\ log[r][i].op = "getProperties" /\ log[r][j].op = "upload"
        /\ log[r][j].res = "ok" /\ log[r][i].blob = log[r][j].blob
        /\ log[r][j].blob \in DOMAIN store
        /\ store[log[r][j].blob].blobContentType = "image/webp"
        /\ Finished(r) /\ IsMiss(r)

\* ----------------------------------------------------------------- C22
\* Requests for one image that overlap, in a process that starts with the
\* entry of that image in the container, written by an earlier process.
StaleStores ==
    {[b \in {BlobFor(q)} |-> EntryFor(q, t)] : q \in RaceQueries, t \in EarlierTimes}
InitStale == InitWith(StaleStores)
SpecStale == InitStale /\ [][NextRace]_vars

\* An entry is fresh at time t when the staleness test does not hold of it.
FreshAt(entry, t) == ~IsExpired(t, entry.lastModified)

\* C22: no step removes from the container an entry that is fresh at the
\* moment it is removed.
C22_Claimed_OnlyStaleRemoved ==
    [][\A b \in DOMAIN store :
          b \notin DOMAIN store' => ~FreshAt(store[b], now)]_vars

\* A request read the properties of a stale entry, another request re-wrote
\* the entry afterwards, and the first request's delete then removed it.
C22_FreshEntryRemoved ==
    \E r, o \in Requests : \E i, j \in DOMAIN log[r] : \E k \in DOMAIN log[o] :
        /\ r # o /\ i < j
        /\ log[r][i].op = "getProperties" /\ log[r][i].res = "ok"
        /\ IsExpired(log[r][i].at, log[r][i].lm)
        /\ log[r][j].op = "deleteIfExists" /\ log[r][j].res = "ok"
        /\ log[o][k].op = "upload" /\ log[o][k].res = "ok"
        /\ log[o][k].blob = log[r][j].blob
        /\ log[o][k].at = now
        /\ pc[o] = "done" /\ pc[r] = "fetch"
        /\ log[r][j].blob \notin DOMAIN store

\* ----------------------------------------------------------------- C23
\* Requests, one after the other, for one image under transform parameters
\* that differ in one field; the container starts empty, so every entry is
\* written by the program.
CollideQueries ==
    {("url" :> <<"a">>),
     ("url" :> <<"a">>) @@ ("w" :> <<"0">>),
     ("url" :> <<"a">>) @@ ("quality" :> <<"0">>)}
ArriveCollide(r) ==
    /\ \A o \in Requests : pc[o] \in {"idle", "done"}
    /\ ArriveFrom(r, CollideQueries)
NextCollide ==
    \/ \E r \in Requests :
        \/ ArriveCollide(r)
        \/ CreateReturn(r)
        \/ GetPropertiesReturn(r)
        \/ DeleteReturn(r)
        \/ DownloadReturn(r)
        \/ FetchReturn(r)
        \/ TransformReturn(r)
        \/ UploadReturn(r)
    \/ Tick
SpecCollide == Init /\ [][NextCollide]_vars

\* The transform parameters of a request.
TransformFields(r) ==
    <<loc[r].url, loc[r].width, loc[r].height, loc[r].format, loc[r].quality>>

\* C23: the body of every HIT response is the output of the pipeline for
\* the parameters of the request answered, produced by an earlier request
\* with the same (url, width, height, format, quality).
C23_Claimed_CacheIntegrity ==
    \A r \in Requests :
        (Finished(r) /\ IsHit(r)) =>
            /\ resp[r].body = FreshBytes(r)
            /\ \E o \in Requests \ {r} :
                   /\ o \in started[r].after
                   /\ PipelineSucceeded(o)
                   /\ TransformFields(o) = TransformFields(r)
                   /\ resp[o].body = resp[r].body

\* A request with w=0 answered HIT with the bytes produced for a request
\* without a width.
C23_WrongBytesServed ==
    \E r, o \in Requests :
        /\ Finished(r) /\ IsHit(r) /\ IsMiss(o)
        /\ loc[r].width = Num(0) /\ loc[o].width = undefined
        /\ resp[r].body = resp[o].body
        /\ resp[r].body # FreshBytes(r)

\* ----------------------------------------------------------------- C24
\* C24: a request carrying a url is answered 500 if and only if its origin
\* fetch or its transform threw; a fault of the handle or of a blob
\* operation alone never yields a 500, and a 500 carries the pipeline's
\* error, never a store error.
C24_Only500FromPipeline ==
    \A r \in Requests :
        (Finished(r) /\ HasUrl(r)) =>
            /\ resp[r].status = 500 <=> PipelineFault(r)
            /\ ((HandleFault(r) \/ BlobFault(r)) /\ ~PipelineFault(r)) =>
                   resp[r].status = 200
            /\ resp[r].status = 500 =>
                   resp[r].body \in {ErrorResponse(FetchError).body,
                                     ErrorResponse(CodecError).body}

\* One request was answered 200 although a store call of it failed, and
\* another was answered 500 after its pipeline threw.
C24_Witness ==
    \E r, o \in Requests :
        /\ Finished(r) /\ BlobFault(r) /\ ~PipelineFault(r) /\ resp[r].status = 200
        /\ Finished(o) /\ PipelineFault(o) /\ resp[o].status = 500

\* ----------------------------------------------------------------- C25
\* The external call a request is suspended on settles: it returns or
\* throws.
Settle(r) ==
    \/ CreateReturn(r)
    \/ GetPropertiesReturn(r)
    \/ DeleteReturn(r)
    \/ DownloadReturn(r)
    \/ FetchReturn(r)
    \/ TransformReturn(r)
    \/ UploadReturn(r)

\* Overlapping requests for one image whose entry in the container has
\* expired, every external call of which eventually settles.
ExpiredStores ==
    {[b \in {BlobFor(q)} |-> EntryFor(q, StartTime - BLOB_CACHE_MAX_AGE_MS - 1)] :
        q \in RaceQueries}
InitFair == InitWith(ExpiredStores)
FairQueries == RaceQueries \cup {("url" :> <<>>)}
ArriveFair(r) ==
    /\ r \notin Racers => \A o \in Requests : pc[o] \in {"idle", "done"}
    /\ ArriveFrom(r, FairQueries)
NextFair == \E r \in Requests : ArriveFair(r) \/ Settle(r)
SpecFair ==
    InitFair /\ [][NextFair]_vars /\ \A r \in Requests : WF_vars(Settle(r))

\* C25: every request that arrived is eventually answered, with status 200,
\* 400 or 500; a request has no response before it is answered and its
\* response never changes afterwards: it is answered exactly once, whatever
\* the other requests do.
C25_Terminates ==
    /\ \A r \in Requests : (pc[r] # "idle") ~> Finished(r)
    /\ [](\A r \in Requests :
            /\ Finished(r) => resp[r].status \in {200, 400, 500}
            /\ ~Finished(r) => resp[r] = NoResponse)
    /\ [][\A r \in Requests :
             Finished(r) => (pc'[r] = "done" /\ resp'[r] = resp[r])]_vars

\* Two overlapping requests were both in flight and both have been
\* answered, one of them after the other had finished.
C25_Witness ==
    /\ Concurrent(1, 2)
    /\ Finished(1) /\ Finished(2)
    /\ HasUrl(1) /\ HasUrl(2)
    /\ resp[1].status = 200 /\ resp[2].status \in {200, 500}

\* ============================================================ CorsProxy
\* Strings of the proxy are sequences of tokens (a word, a separator, a
\* space); Str joins them.
ALLOWED_CONTENT_TYPES ==
    <<<<"application", "/", "rss+xml">>,
      <<"application", "/", "atom+xml">>,
      <<"application", "/", "xml">>,
      <<"text", "/", "xml">>,
      <<"application", "/", "json">>,
      <<"text", "/", "plain">>,
      <<"text", "/", "html">>>>
REQUEST_TIMEOUT == 15000

\* String.prototype.toLowerCase, token by token.
LowerToken(c) ==
    CASE c = "Application" -> "application"
      [] c = "TEXT" -> "text"
      [] c = "XML" -> "xml"
      [] c = "HTTP" -> "http"
      [] OTHER -> c
toLowerCase(s) == [i \in DOMAIN s |-> LowerToken(s[i])]

\* s.split(sep)[0]: the part before the first separator, all of s when
\* there is none.
SplitFirst(s, sep) ==
    IF \E i \in DOMAIN s : s[i] = sep
    THEN SubSeq(s, 1, (CHOOSE i \in DOMAIN s :
                          s[i] = sep /\ \A j \in 1..(i - 1) : s[j] # sep) - 1)
    ELSE s

\* String.prototype.trim
RECURSIVE trimEnd(_)
trimEnd(s) ==
    IF s # <<>> /\ IsWhiteSpace(s[Len(s)]) THEN trimEnd(SubSeq(s, 1, Len(s) - 1))
    ELSE s
trim(s) == trimEnd(TrimStart(s))

\* String.prototype.startsWith
startsWith(s, prefix) ==
    Len(s) >= Len(prefix) /\ SubSeq(s, 1, Len(prefix)) = prefix

\* const corsHeaders = {...} (lines 30-35)
corsHeaders ==
    ("Access-Control-Allow-Origin" :> "*")
    @@ ("Access-Control-Allow-Methods" :> "GET, HEAD, OPTIONS")
    @@ ("Access-Control-Allow-Headers" :> "Content-Type, Accept")
    @@ ("Access-Control-Max-Age" :> "86400")

\* new URL(targetUrl) (line 65): a scheme word and a colon; a special scheme
\* (http, https, ftp) needs a host after the optional slashes.
IsWord(c) == c \notin {"", ":", "/", "//", ";", " "}
SpecialSchemes == {"http", "https", "ftp"}
RECURSIVE SkipSlashes(_)
SkipSlashes(s) ==
    IF s # <<>> /\ Head(s) \in {"/", "//"} THEN SkipSlashes(Tail(s)) ELSE s
ParsesAsURL(u) ==
    /\ Len(u) >= 2
    /\ IsWord(u[1])
    /\ u[2] = ":"
    /\ LowerToken(u[1]) \in SpecialSchemes => SkipSlashes(SubSeq(u, 3, Len(u))) # <<>>
\* parsedUrl.protocol
URLProtocol(u) == LowerToken(u[1]) \o ":"
\* ["http:", "https:"].includes(parsedUrl.protocol) (line 81)
AllowedProtocol(u) == URLProtocol(u) \in {"http:", "https:"}

\* if (!targetUrl) (line 48)
MissingTargetUrl(q) == ~Has(q, "url") \/ q["url"] = <<>>

\* What the upstream server, or the network, does with the proxy's GET.
NoHeaders == [h \in {} |-> <<>>]
Reply(status, headers) ==
    [kind |-> "reply", status |-> status, headers |-> headers,
     data |-> [kind |-> "upstream", status |-> status]]
NetworkFailure(kind) ==
    [kind |-> kind, status |-> 0, headers |-> NoHeaders, data |-> NoBytes]

\* validateStatus: (status) => status < 500 (line 110)
validateStatus(status) == status < 500

\* axios.get (lines 98-111): the promise resolves with the reply when
\* validateStatus accepts its status, and rejects with an AxiosError
\* otherwise; "throw" is an error that is not an AxiosError.
Settled(kind, code, hasResponse, up) ==
    [kind |-> kind, code |-> code, hasResponse |-> hasResponse,
     status |-> up.status, headers |-> up.headers, data |-> up.data]
AxiosGet(up) ==
    CASE up.kind = "reply" ->
            IF validateStatus(up.status) THEN Settled("resolved", "", TRUE, up)
            ELSE Settled("AxiosError", "ERR_BAD_RESPONSE", TRUE, up)
      [] up.kind = "timeout" -> Settled("AxiosError", "ECONNABORTED", FALSE, up)
      [] up.kind = "notfound" -> Settled("AxiosError", "ENOTFOUND", FALSE, up)
      [] up.kind = "again" -> Settled("AxiosError", "EAI_AGAIN", FALSE, up)
      [] up.kind = "refused" -> Settled("AxiosError", "ECONNREFUSED", FALSE, up)
      [] OTHER -> Settled("Error", "", FALSE, up)

\* response.headers["content-type"] || "application/octet-stream" (line 114)
contentTypeOf(headers) ==
    IF "content-type" \in DOMAIN headers /\ headers["content-type"] # <<>>
    THEN headers["content-type"]
    ELSE <<"application", "/", "octet-stream">>
\* contentType.split(";")[0].trim().toLowerCase() (line 115)
contentTypeBaseOf(contentType) == toLowerCase(trim(SplitFirst(contentType, ";")))
\* ALLOWED_CONTENT_TYPES.some(...) (lines 118-120)
isAllowedType(contentTypeBase) ==
    \E i \in DOMAIN ALLOWED_CONTENT_TYPES :
        LET allowed == ALLOWED_CONTENT_TYPES[i]
        IN  \/ contentTypeBase = allowed
            \/ startsWith(contentTypeBase, SplitFirst(allowed, "/") \o <<"/">>)

\* The responses of the proxy.
NoBody == [kind |-> "none"]
PreflightResponse == [status |-> 204, headers |-> corsHeaders, body |-> NoBody]

\* Mutant: the JSON responses carry the content type alone.
JsonResponseNoCors(status, jsonBody) ==
    [status |-> status, headers |-> ("Content-Type" :> "application/json"),
     body |-> jsonBody]

\* return { status, headers: {...corsHeaders, "Content-Type":
\* "application/json"}, jsonBody } (lines 49, 67, 82, 124, 160, 175, 188, 204)
JsonResponse(status, jsonBody) ==
    [status |-> status,
     headers |-> ("Content-Type" :> "application/json") @@ corsHeaders,
     body |-> jsonBody]

\* lines 139-149
ProxiedResponse(targetUrl, response, contentType) ==
    [status |-> response.status,
     headers |-> ("Content-Type" :> Str(contentType))
                 @@ ("Cache-Control" :> "public, max-age=300")
                 @@ ("X-Proxied-URL" :> Str(targetUrl))
                 @@ ("X-Original-Status" :> ToString(response.status))
                 @@ corsHeaders,
     body |-> response.data]

\* Mutant: every other fetch error is answered 502.
FetchErrorStatusAlways502(err) == 502

\* const status = err.response?.status || 502 (line 153) and
\* status >= 400 && status < 600 ? status : 502 (line 189)
FetchErrorStatus(err) ==
    LET status == IF err.hasResponse /\ err.status # 0 THEN err.status ELSE 502
    IN  IF status >= 400 /\ status < 600 THEN status ELSE 502

\* The handler once axios.get has settled (lines 113-215).
AfterAxiosGet(targetUrl, settled) ==
    CASE settled.kind = "resolved" ->
            LET contentType == contentTypeOf(settled.headers)
                contentTypeBase == contentTypeBaseOf(contentType)
            IN  IF ~isAllowedType(contentTypeBase)
                THEN JsonResponse(403, [error |-> "Content type not allowed",
                                        contentType |-> Str(contentType)])
                ELSE ProxiedResponse(targetUrl, settled, contentType)
      [] settled.kind = "AxiosError" ->
            IF settled.code = "ECONNABORTED"
            THEN JsonResponse(504, [error |-> "Request timeout",
                                    timeout |-> REQUEST_TIMEOUT])
            ELSE IF settled.code \in {"ENOTFOUND", "EAI_AGAIN"}
            THEN JsonResponse(502, [error |-> "Could not resolve host"])
            ELSE JsonResponse(FetchErrorStatus(settled),
                              [error |-> "Failed to fetch URL", code |-> settled.code])
      [] OTHER -> JsonResponse(500, [error |-> "Internal server error"])

\* The inputs of the proxy.
Methods == {"GET", "HEAD", "OPTIONS"}
TargetUrls ==
    {<<>>, <<"a">>,
     <<"http", ":", "//", "a">>, <<"HTTP", ":", "//", "a">>,
     <<"https", ":", "//", "a">>, <<"ftp", ":", "//", "a">>,
     <<"http", ":", "//">>, <<"data", ":", "a">>}
CorsQueries == {<<>>} \cup {("url" :> u) : u \in TargetUrls}
PlainCorsQueries == {("url" :> <<"https", ":", "//", "a">>)}
ContentTypeHeaders ==
    {<<"application", "/", "rss+xml">>,
     <<"text", "/", "xml", " ", ";", " ", "charset=utf-8">>,
     <<"Application", "/", "json">>,
     <<"TEXT", "/", "XML">>,
     <<"application", "/", "pdf">>,
     <<"application", "/", "octet-stream">>,
     <<"text", "/", "css">>,
     <<"image", "/", "png">>,
     <<"image", "/", "png", ";", "text", "/", "xml">>,
     <<"text">>}
UpstreamHeaders ==
    {NoHeaders} \cup {("content-type" :> c) : c \in ContentTypeHeaders}
Upstreams ==
    {Reply(st, h) : st \in {200, 404}, h \in UpstreamHeaders}
    \cup {Reply(st, NoHeaders) : st \in {500, 503, 600}}
    \cup {NetworkFailure(k) : k \in {"timeout", "notfound", "again", "refused", "throw"}}

PlainUpstreams ==
    {Reply(200, NoHeaders), Reply(503, NoHeaders), NetworkFailure("timeout")}

\* A request reaches CorsProxy (lines 29-96): the handler runs up to its
\* return, or to the await of axios.get.  The first request draws every
\* input and every upstream behaviour; the later ones are plain GETs.
CorsProxyArrive(r) ==
    /\ pc[r] = "idle"
    /\ \A o \in Requests : o < r => pc[o] # "idle"
    /\ \E m \in Methods : \E q \in CorsQueries :
        /\ r # 1 => (m = "GET" /\ q \in PlainCorsQueries)
        /\ method' = [method EXCEPT ![r] = m]
        /\ query' = [query EXCEPT ![r] = q]
        /\ started' = [started EXCEPT
                         ![r] = [at |-> now, after |-> {o \in Requests : pc[o] = "done"}]]
        /\ IF m = "OPTIONS" THEN Respond(r, PreflightResponse)
           ELSE IF MissingTargetUrl(q)
           THEN Respond(r, JsonResponse(400, [error |-> "Missing 'url' query parameter"]))
           ELSE IF ~ParsesAsURL(q["url"])
           THEN Respond(r, JsonResponse(400, [error |-> "Invalid URL format"]))
           ELSE IF ~AllowedProtocol(q["url"])
           THEN Respond(r, JsonResponse(400,
                    [error |-> "Only HTTP and HTTPS protocols are allowed",
                     protocol |-> URLProtocol(q["url"])]))
           ELSE Goto(r, "axiosGet")
    /\ UNCHANGED <<tokenCache, clientId, clientSecret, connectionString,
                   containerClient, containerInitialized, store, now, ticks, loc, log>>

\* axios.get settles and the handler returns (lines 98-215).
CorsProxyFetchReturn(r) ==
    /\ pc[r] = "axiosGet"
    /\ \E up \in Upstreams :
        LET settled == AxiosGet(up)
        IN  /\ r # 1 => up \in PlainUpstreams
            /\ loc' = [loc EXCEPT ![r] = [upstream |-> up, settled |-> settled]]
            /\ Logged(r, Call("axios.get",
                              IF settled.kind = "resolved" THEN "ok" ELSE "fault", NoBlob))
            /\ Respond(r, AfterAxiosGet(query[r]["url"], settled))
    /\ UNCHANGED <<otherVars, connectionString, containerClient,
                   containerInitialized, store, now, ticks, query, started>>

InitCors == InitWith({EmptyStore}) /\ connectionString = NULL
NextCors == \E r \in Requests : CorsProxyArrive(r) \/ CorsProxyFetchReturn(r)
SpecCors == InitCors /\ [][NextCors]_vars

\* ------------------------------------------------------ CorsProxy claims
\* The upstream replied to the request and axios resolved with the reply.
Resolved(r) == Finished(r) /\ DidWith(r, "axios.get", "ok")
\* The request made no upstream fetch.
NoFetch(r) == ~Did(r, "axios.get")
\* The base content type of the reply, as the claims describe it.
BaseContentType(r) == contentTypeBaseOf(contentTypeOf(loc[r].settled.headers))
ListedContentTypes == {ALLOWED_CONTENT_TYPES[i] : i \in DOMAIN ALLOWED_CONTENT_TYPES}
\* The answer is the proxied reply: it carries the upstream body.
Proxied(r) ==
    /\ "X-Proxied-URL" \in DOMAIN resp[r].headers
    /\ resp[r].body = loc[r].upstream.data
\* The answer is the 403 of a blocked content type.
Blocked(r) ==
    /\ resp[r].status = 403
    /\ "error" \in DOMAIN resp[r].body
    /\ resp[r].body.error = "Content type not allowed"
CarriesCorsHeaders(r) ==
    \A h \in DOMAIN corsHeaders :
        h \in DOMAIN resp[r].headers /\ resp[r].headers[h] = corsHeaders[h]

\* ----------------------------------------------------------------- C26
\* C26: a reply is proxied only if its base content type is one of the
\* seven listed types; for any other content type the answer is 403
\* 'Content type not allowed', without the upstream body.
C26_Claimed_Allowlist ==
    \A r \in Requests :
        Resolved(r) =>
            IF BaseContentType(r) \in ListedContentTypes
            THEN Proxied(r)
            ELSE Blocked(r) /\ ~Proxied(r)

\* A reply of type application/pdf, and one without a content type, were
\* proxied with the upstream body.
C26_UnlistedTypeProxied ==
    \E r \in Requests :
        /\ Resolved(r) /\ Proxied(r)
        /\ BaseContentType(r) \in {<<"application", "/", "pdf">>,
                                   <<"application", "/", "octet-stream">>}
        /\ BaseContentType(r) \notin ListedContentTypes

\* ----------------------------------------------------------------- C27
\* C27: every response of the proxy carries the CORS headers, with
\* Access-Control-Allow-Origin: *; an OPTIONS request is answered 204
\* whatever its url, without an upstream fetch; a missing url, an
\* unparseable url and a protocol other than http/https are answered 400
\* without an upstream fetch, and no 400 of the proxy's own follows a fetch.
C27_CorsHeadersEverywhere ==
    \A r \in Requests :
        Finished(r) =>
            /\ CarriesCorsHeaders(r)
            /\ resp[r].headers["Access-Control-Allow-Origin"] = "*"
            /\ method[r] = "OPTIONS" => (resp[r].status = 204 /\ NoFetch(r))
            /\ (method[r] # "OPTIONS"
                /\ (\/ MissingTargetUrl(query[r])
                    \/ ~ParsesAsURL(query[r]["url"])
                    \/ ~AllowedProtocol(query[r]["url"]))) =>
                   (resp[r].status = 400 /\ NoFetch(r))
            /\ resp[r].status = 204 => method[r] = "OPTIONS"
            /\ NoFetch(r) => resp[r].status \in {204, 400}

\* The first request was an OPTIONS without a url, answered 204; another
\* request was fetched and answered by an error response, with the headers.
C27_Witness ==
    \E r, o \in Requests :
        /\ Finished(r) /\ method[r] = "OPTIONS" /\ ~Has(query[r], "url")
        /\ resp[r].status = 204 /\ CarriesCorsHeaders(r)
        /\ Finished(o) /\ DidWith(o, "axios.get", "fault")
        /\ resp[o].status = 504 /\ CarriesCorsHeaders(o)

\* ----------------------------------------------------------------- C28
\* C28: a reply with a status below 500 and a listed content type is
\* answered with the upstream status and X-Original-Status equal to it; a
\* timeout gives 504; a host-resolution failure gives 502; any other fetch
\* error gives the upstream status when it is in 400..599 and 502
\* otherwise; an error that is not a fetch error gives 500; a status outside
\* {204, 400, 403, 500, 502, 504} is one taken from the upstream reply.
C28_StatusMapping ==
    \A r \in Requests :
        Finished(r) =>
            /\ resp[r].status \notin {204, 400, 403, 500, 502, 504} =>
                   (~NoFetch(r) /\ loc[r].upstream.kind = "reply"
                    /\ resp[r].status = loc[r].upstream.status)
            /\ ~NoFetch(r) =>
                LET up == loc[r].upstream
                IN  /\ (up.kind = "reply" /\ up.status < 500
                        /\ BaseContentType(r) \in ListedContentTypes) =>
                           /\ resp[r].status = up.status
                           /\ resp[r].headers["X-Original-Status"] = ToString(up.status)
                    /\ up.kind = "timeout" => resp[r].status = 504
                    /\ up.kind \in {"notfound", "again"} => resp[r].status = 502
                    /\ up.kind = "refused" => resp[r].status = 502
                    /\ (up.kind = "reply" /\ up.status >= 500) =>
                           resp[r].status =
                               IF up.status >= 400 /\ up.status <= 599
                               THEN up.status ELSE 502
                    /\ up.kind = "throw" => resp[r].status = 500

\* One request was answered with the upstream's 404 and another with the
\* upstream's 503, taken from the rejected reply.
C28_Witness ==
    \E r, o \in Requests :
        /\ Resolved(r) /\ loc[r].upstream.status = 404
        /\ BaseContentType(r) \in ListedContentTypes
        /\ resp[r].status = 404 /\ resp[r].headers["X-Original-Status"] = "404"
        /\ Finished(o) /\ DidWith(o, "axios.get", "fault")
        /\ loc[o].upstream.kind = "reply" /\ loc[o].upstream.status = 503
        /\ resp[o].status = 503

\* ================================================================= IGDB
\* The margin of the cached token's validity (IGDB.ts line 25).
TokenBuffer == 300000
IgdbActions == <<"search", "get", "slug", "popular", "recent", "upcoming">>

\* const action = request.query.get("action") || "search" (line 414)
ActionOf(q) == IF Given(q, "action") THEN Str(q["action"]) ELSE "search"

\* Mutant: action get is not checked for its id.
ValidationErrorIdUnchecked(q) ==
    LET action == ActionOf(q)
    IN  CASE action = "search" ->
                IF Given(q, "q") \/ Given(q, "query") THEN ""
                ELSE "Missing 'q' or 'query' parameter for search"
          [] action = "slug" ->
                IF Given(q, "slug") THEN "" ELSE "Missing 'slug' parameter"
          [] action \in {"get", "popular", "recent", "upcoming"} -> ""
          [] OTHER -> "Unknown action: " \o action

\* The parameter checks of the switch (lines 446-588): the error of the 400
\* returned before igdbRequest is called, "" when there is none.
ValidationError(q) ==
    LET action == ActionOf(q)
    IN  CASE action = "search" ->
                IF Given(q, "q") \/ Given(q, "query") THEN ""
                ELSE "Missing 'q' or 'query' parameter for search"
          [] action = "get" ->
                IF Given(q, "id") THEN "" ELSE "Missing 'id' parameter"
          [] action = "slug" ->
                IF Given(q, "slug") THEN "" ELSE "Missing 'slug' parameter"
          [] action \in {"popular", "recent", "upcoming"} -> ""
          [] OTHER -> "Unknown action: " \o action

\* The body of a 400 (lines 449-454, 475-480, 501-506, 581-588).
ValidationBody(q) ==
    IF ActionOf(q) \in {IgdbActions[i] : i \in DOMAIN IgdbActions}
    THEN [error |-> ValidationError(q)]
    ELSE [error |-> ValidationError(q), availableActions |-> IgdbActions]

IgdbResponse(status, headers, jsonBody) ==
    [status |-> status, headers |-> headers, body |-> jsonBody]

\* if (!clientId || !clientSecret) (line 19)
CredentialsMissing == clientId = NULL \/ clientSecret = NULL

\* Mutant: the cached token counts as valid until it expires.
CacheValidNoBuffer(cache, t) == ~cache.isNull /\ cache.expiresAt > t

\* tokenCache && tokenCache.expiresAt > now + 300000 (line 25)
CacheValid(cache, t) == ~cache.isNull /\ cache.expiresAt > t + TokenBuffer

\* tokenCache = { accessToken: access_token, expiresAt: now + expires_in *
\* 1000 } (lines 38-41), now being the time read at line 24.
NewTokenCache(access_token, expires_in, t) ==
    [isNull |-> FALSE, accessToken |-> access_token,
     expiresAt |-> t + (expires_in * 1000)]

\* The handler's catch (lines 600-620).
IgdbCatch(error) ==
    IF error.hasResponse
    THEN IgdbResponse(IF error.status # 0 THEN error.status ELSE 500, NoHeaders,
                      [error |-> "IGDB API error"])
    ELSE IgdbResponse(500, NoHeaders,
                      [error |-> "Internal server error", message |-> error.message])
PlainError(message) == [hasResponse |-> FALSE, status |-> 0, message |-> message]
ResponseError(status) ==
    [hasResponse |-> TRUE, status |-> status,
     message |-> "Request failed with status code " \o ToString(status)]

\* The handler once igdbRequest has returned games (lines 464-471,
\* 488-497, 514-523, 591-598).
AfterIgdbRequest(q, games) ==
    IF ActionOf(q) \in {"get", "slug"} /\ Len(games) = 0
    THEN IgdbResponse(404, NoHeaders, [error |-> "Game not found"])
    ELSE IgdbResponse(200,
                      ("Content-Type" :> "application/json")
                      @@ ("Cache-Control" :> "public, max-age=3600"),
                      [action |-> ActionOf(q), games |-> games])

\* The inputs of the function and the answers of the two services.
IgdbQueries ==
    {<<>>,
     ("q" :> <<"x">>),
     ("action" :> <<>>) @@ ("query" :> <<"x">>),
     ("action" :> <<"g", "e", "t">>),
     ("action" :> <<"g", "e", "t">>) @@ ("id" :> <<"1">>),
     ("action" :> <<"s", "l", "u", "g">>),
     ("action" :> <<"s", "l", "u", "g">>) @@ ("slug" :> <<"x">>),
     ("action" :> <<"p", "o", "p", "u", "l", "a", "r">>),
     ("action" :> <<"G", "E", "T">>) @@ ("id" :> <<"1">>)}
PlainIgdbQueries == {("action" :> <<"p", "o", "p", "u", "l", "a", "r">>)}
\* The token service issues a token of its own to each request.
AccessTokenFor(r) == "token" \o ToString(r)
ExpiresIn == {300, 301}
GameLists == {<<>>, <<"game">>}
ApiErrors == {ResponseError(401), PlainError("Network Error")}
NoIgdbLocals == [now |-> 0, accessToken |-> "", expires_in |-> 0, games |-> <<>>]

\* A request reaches IGDB (lines 410-463) and, its parameters accepted,
\* igdbRequest calls getAccessToken (lines 15-30), which throws, returns
\* the cached token, or awaits the token request.  The first request draws
\* every query; the later ones ask for the popular games.  The first two
\* requests overlap freely; a later one arrives when nothing is in flight.
IgdbArrive(r) ==
    /\ pc[r] = "idle"
    /\ \A o \in Requests : o < r => pc[o] # "idle"
    /\ r \notin Racers => \A o \in Requests : pc[o] \in {"idle", "done"}
    /\ \E q \in IgdbQueries :
        /\ r # 1 => q \in PlainIgdbQueries
        /\ query' = [query EXCEPT ![r] = q]
        /\ started' = [started EXCEPT
                         ![r] = [at |-> now, after |-> {o \in Requests : pc[o] = "done"}]]
        /\ IF ValidationError(q) # ""
           THEN /\ Respond(r, IgdbResponse(400, NoHeaders, ValidationBody(q)))
                /\ UNCHANGED <<loc, log>>
           ELSE IF CredentialsMissing
           THEN /\ Respond(r, IgdbCatch(PlainError(
                       "IGDB_CLIENT_ID and IGDB_CLIENT_SECRET environment variables are required")))
                /\ loc' = [loc EXCEPT ![r] = NoIgdbLocals]
                /\ Logged(r, Call("getAccessToken", "fault", NoBlob))
           ELSE IF CacheValid(tokenCache, now)
           THEN /\ Goto(r, "igdbApi")
                /\ loc' = [loc EXCEPT ![r] = [NoIgdbLocals EXCEPT
                              !.now = now, !.accessToken = tokenCache.accessToken]]
                /\ Logged(r, Call("getAccessToken", "cached", NoBlob))
           ELSE /\ Goto(r, "tokenRequest")
                /\ loc' = [loc EXCEPT ![r] = [NoIgdbLocals EXCEPT !.now = now]]
                /\ UNCHANGED log
    /\ UNCHANGED <<method, tokenCache, clientId, clientSecret, connectionString,
                   containerClient, containerInitialized, store, now, ticks>>

\* The token request settles (lines 32-48).
IgdbTokenReturn(r) ==
    /\ pc[r] = "tokenRequest"
    /\ \/ \E access_token \in {AccessTokenFor(r)} : \E expires_in \in ExpiresIn :
            /\ tokenCache' = NewTokenCache(access_token, expires_in, loc[r].now)
            /\ loc' = [loc EXCEPT ![r].accessToken = access_token,
                                  ![r].expires_in = expires_in]
            /\ Logged(r, Call("tokenRequest", "ok", NoBlob))
            /\ Goto(r, "igdbApi")
       \/ /\ UNCHANGED <<tokenCache, loc>>
          /\ Logged(r, Call("tokenRequest", "fault", NoBlob))
          /\ Respond(r, IgdbCatch(PlainError("Failed to authenticate with IGDB")))
    /\ UNCHANGED <<method, clientId, clientSecret, connectionString, containerClient,
                   containerInitialized, store, now, ticks, query, started>>

\* The IGDB API request settles (lines 62-74) and the handler returns.
IgdbApiReturn(r) ==
    /\ pc[r] = "igdbApi"
    /\ \/ \E games \in GameLists :
            /\ loc' = [loc EXCEPT ![r].games = games]
            /\ Logged(r, Call("igdbApi", "ok", NoBlob))
            /\ Respond(r, AfterIgdbRequest(query[r], games))
       \/ \E error \in ApiErrors :
            /\ UNCHANGED loc
            /\ Logged(r, Call("igdbApi", "fault", NoBlob))
            /\ Respond(r, IgdbCatch(error))
    /\ UNCHANGED <<otherVars, connectionString, containerClient,
                   containerInitialized, store, now, ticks, query, started>>

\* IGDB in a process with or without its credentials; the clock advances.
InitIgdb ==
    /\ connectionString = NULL
    /\ containerClient = NULL
    /\ containerInitialized = FALSE
    /\ store = EmptyStore
    /\ now = StartTime
    /\ ticks = 0
    /\ pc = [r \in Requests |-> "idle"]
    /\ query = [r \in Requests |-> <<>>]
    /\ loc = [r \in Requests |-> NoIgdbLocals]
    /\ resp = [r \in Requests |-> NoResponse]
    /\ log = [r \in Requests |-> <<>>]
    /\ started = [r \in Requests |-> [at |-> 0, after |-> {}]]
    /\ method = [r \in Requests |-> "GET"]
    /\ tokenCache = NullTokenCache
    /\ clientId \in {NULL, "client-id"}
    /\ clientSecret \in {NULL, "client-secret"}
NextIgdb ==
    \/ \E r \in Requests : IgdbArrive(r) \/ IgdbTokenReturn(r) \/ IgdbApiReturn(r)
    \/ Tick
SpecIgdb == InitIgdb /\ [][NextIgdb]_vars

\* ------------------------------------------------------------ IGDB claims
\* The step in which request r, its parameters accepted, calls
\* getAccessToken.
CallsGetAccessToken(r) ==
    /\ pc[r] = "idle" /\ pc'[r] # "idle"
    /\ ~(pc'[r] = "done" /\ resp'[r].status = 400)
\* The cached token is usable at time t, as the claim words it.
UsableAt(t) == ~tokenCache.isNull /\ tokenCache.expiresAt > t + 300000
\* The steps in which the token request of r succeeds, and fails.
TokenGranted(r) == pc[r] = "tokenRequest" /\ pc'[r] = "igdbApi"
TokenRefused(r) == pc[r] = "tokenRequest" /\ pc'[r] = "done"
\* getAccessToken returns the cached token, without a token request.
ReturnsCached(r) ==
    /\ pc'[r] = "igdbApi"
    /\ loc'[r].accessToken = tokenCache.accessToken
    /\ tokenCache' = tokenCache
\* The cache holds what a successful token request of some request put.
FromSuccessfulAuth ==
    \E r \in Requests :
        /\ DidWith(r, "tokenRequest", "ok")
        /\ tokenCache.accessToken = loc[r].accessToken
        /\ tokenCache.expiresAt = loc[r].now + loc[r].expires_in * 1000
\* What the claim says of the token requests, whatever the credentials.
TokenRequestsAsClaimed ==
    \A r \in Requests :
        /\ TokenGranted(r) =>
               /\ ~tokenCache'.isNull
               /\ tokenCache'.accessToken = loc'[r].accessToken
               /\ tokenCache'.expiresAt = loc[r].now + loc'[r].expires_in * 1000
        /\ TokenRefused(r) =>
               /\ tokenCache' = tokenCache
               /\ resp'[r].status = 500
               /\ resp'[r].body.message = "Failed to authenticate with IGDB"
        /\ tokenCache' # tokenCache => \E o \in Requests : TokenGranted(o)

\* ----------------------------------------------------------------- C29
\* C29 as claimed: getAccessToken returns the cached token without a token
\* request exactly when a token is cached whose expiresAt is more than
\* 300000 ms after now, and otherwise requests a new token; a successful
\* request replaces the cache with expiresAt = now + expires_in*1000, a
\* failed one leaves it unchanged and raises 'Failed to authenticate with
\* IGDB'; the cache is always null or what a successful request put.
C29_Claimed_TokenCache ==
    /\ [](tokenCache.isNull \/ FromSuccessfulAuth)
    /\ [][/\ TokenRequestsAsClaimed
          /\ \A r \in Requests :
                CallsGetAccessToken(r) =>
                    IF UsableAt(now) THEN ReturnsCached(r)
                    ELSE pc'[r] = "tokenRequest"]_vars

\* C29, amended: the same, provided both credentials are set; when one is
\* missing getAccessToken throws before it looks at the cache, no token
\* request is made and the cache stays null.
C29_TokenCacheWithCredentials ==
    /\ [](/\ tokenCache.isNull \/ FromSuccessfulAuth
          /\ (clientId = NULL \/ clientSecret = NULL) => tokenCache.isNull)
    /\ [][/\ TokenRequestsAsClaimed
          /\ \A r \in Requests :
                CallsGetAccessToken(r) =>
                    IF clientId = NULL \/ clientSecret = NULL
                    THEN /\ pc'[r] = "done" /\ resp'[r].status = 500
                         /\ tokenCache' = tokenCache
                    ELSE IF UsableAt(now) THEN ReturnsCached(r)
                    ELSE pc'[r] = "tokenRequest"]_vars

\* A request was granted a token, and another, arriving within its
\* validity, was given the cached token, which is still the one cached.
C29_Witness ==
    \E r, o \in Requests :
        /\ r # o
        /\ DidWith(r, "tokenRequest", "ok")
        /\ DidWith(o, "getAccessToken", "cached")
        /\ loc[o].accessToken = loc[r].accessToken
        /\ ~tokenCache.isNull /\ tokenCache.accessToken = loc[r].accessToken

\* ----------------------------------------------------------------- C30
\* The request asks for an action that is none of the six, or lacks the
\* parameter of its action.
UnknownAction(q) ==
    ActionOf(q) \notin {"search", "get", "slug", "popular", "recent", "upcoming"}
LacksParameter(q) ==
    \/ ActionOf(q) = "search" /\ ~Given(q, "q") /\ ~Given(q, "query")
    \/ ActionOf(q) = "get" /\ ~Given(q, "id")
    \/ ActionOf(q) = "slug" /\ ~Given(q, "slug")

\* C30: an unknown action is answered 400 with the six available actions,
\* and search without q/query, get without id and slug without slug are
\* answered 400, in each case without a token request or an API request and
\* with tokenCache unchanged; for get and slug an empty list from the API
\* is answered 404 'Game not found'; every other successful action is
\* answered 200 with Cache-Control 'public, max-age=3600'.
C30_ValidationBeforeNetwork ==
    /\ [](\A r \in Requests :
            Finished(r) =>
                /\ (UnknownAction(query[r]) \/ LacksParameter(query[r])) =>
                       (resp[r].status = 400 /\ log[r] = <<>>)
                /\ UnknownAction(query[r]) =>
                       resp[r].body.availableActions =
                           <<"search", "get", "slug", "popular", "recent", "upcoming">>
                /\ DidWith(r, "igdbApi", "ok") =>
                       IF ActionOf(query[r]) \in {"get", "slug"} /\ loc[r].games = <<>>
                       THEN resp[r].status = 404
                            /\ resp[r].body.error = "Game not found"
                       ELSE resp[r].status = 200
                            /\ resp[r].headers["Cache-Control"] = "public, max-age=3600")
    /\ [][\A r \in Requests :
             (pc[r] = "idle" /\ pc'[r] = "done" /\ resp'[r].status = 400) =>
                 tokenCache' = tokenCache]_vars

\* A get without an id was answered 400 without any call, and another
\* request was answered 200.
C30_Witness ==
    \E r, o \in Requests :
        /\ Finished(r) /\ ActionOf(query[r]) = "get" /\ ~Given(query[r], "id")
        /\ resp[r].status = 400 /\ log[r] = <<>>
        /\ Finished(o) /\ resp[o].status = 200

====
